---------------------------- MODULE Spec2Model ----------------------------
(***************************************************************************)
(* Usage-statistics aggregation and session listing of the Claude session  *)
(* viewer server.  One request runs over an archive of session files:      *)
(* aggregateAllProjects / aggregateProject fold every record into the      *)
(* AggregatedData maps, getOverallStatistics / getProjectStatistics        *)
(* assemble the report, getProjectSessions builds the session listing.     *)
(* The last two sections model the client's WebSocket effect and the      *)
(* search of getProjectPath, each under a specification of its own.        *)
(*                                                                         *)
(* Conventions.  Instants are whole hours since 2000-01-01 00:00 local     *)
(* time; NaN is the time value of an Invalid Date.  Strings the code takes *)
(* apart (file names, session ids, project ids) are sequences of tokens,   *)
(* so that startsWith / endsWith / replace / slice are computed.  A        *)
(* JavaScript undefined number is Undefined, an absent string is "".       *)
(* Money is counted in 1e-8 USD: tokens times the price per million tokens *)
(* in cents.  A ratio reported as a float is kept as a fraction num/den.   *)
(***************************************************************************)
EXTENDS Integers, Sequences, FiniteSets, TLC

\* ------------------------------------------------------------------ bounds
TodayDay == 9          \* the day of the request, in days since 2000-01-01
WindowDays == 7        \* the numeric window selector N that requests use
MaxRecords == 2        \* records per session file in the window archives
MaxToolRecords == 3    \* records per session file in the tool/agent archives
MaxLinkRecords == 3    \* records of the main session in the listing archives
MaxAgentRecords == 3   \* records of the main session in the two-agent archives
MaxOrderFiles == 3     \* files of the first project in the archives for the order of processing
MaxConcurrentFiles == 2  \* files of the first project under two requests
MaxUsageMixRecords == 2  \* records of the first session in the archives of mixed usage
MaxSockets == 4          \* connections one effect instance of the client may open
MaxDirectories == 2      \* directories below the root of a file system
MaxIdLength == 3         \* characters of a project id given to getProjectPath

\* --------------------------------------------------------------- constants
HoursPerDay == 24
NaN == -1              \* getTime() of an Invalid Date
Undefined == -2        \* a numeric JSON field that is absent
Null == -3             \* minDate / maxDate before the first message

\* ---------------------------------------------------------------- helpers
RECURSIVE FoldLeft(_, _, _)
FoldLeft(Op(_, _), acc, s) ==
    IF s = << >> THEN acc ELSE FoldLeft(Op, Op(acc, Head(s)), Tail(s))

RECURSIVE SumSeq(_)
SumSeq(s) == IF s = << >> THEN 0 ELSE Head(s) + SumSeq(Tail(s))

Range(s) == { s[i] : i \in DOMAIN s }

\* JavaScript Map: insertion-ordered keys and their values
EmptyMap == [keys |-> << >>, val |-> << >>]
MapHas(m, k) == k \in Range(m.keys)
MapIndex(m, k) == CHOOSE i \in DOMAIN m.keys : m.keys[i] = k
MapGet(m, k) == m.val[MapIndex(m, k)]
MapSet(m, k, v) ==
    IF MapHas(m, k)
    THEN [m EXCEPT !.val[MapIndex(m, k)] = v]
    ELSE [keys |-> Append(m.keys, k), val |-> Append(m.val, v)]
MapSize(m) == Len(m.keys)

\* Date comparison: every comparison with an Invalid Date is false
DateLt(a, b) == a # NaN /\ b # NaN /\ a < b
DateLe(a, b) == a # NaN /\ b # NaN /\ a <= b

\* Local calendar fields of an instant (2000-01-01 was a Saturday)
DayOf(t) == IF t = NaN THEN NaN ELSE t \div HoursPerDay
getHours(t) == IF t = NaN THEN NaN ELSE t % HoursPerDay
getDay(t) == IF t = NaN THEN NaN ELSE (DayOf(t) + 6) % 7
formatDateLocal(t) == DayOf(t)
MidnightOf(day) == day * HoursPerDay

\* String operations on token sequences
startsWith(s, prefix) ==
    Len(s) >= Len(prefix) /\ SubSeq(s, 1, Len(prefix)) = prefix
endsWith(s, tok) == Len(s) > 0 /\ s[Len(s)] = tok
RECURSIVE replaceFirst(_, _)
replaceFirst(s, tok) ==
    IF s = << >> THEN << >>
    ELSE IF Head(s) = tok THEN Tail(s)
    ELSE << Head(s) >> \o replaceFirst(Tail(s), tok)

Jsonl == ".jsonl"
AgentPrefix == "agent-"
EncodedHome == "-Users-me"


\* ------------------------------------------------- session records (JSON)
\* One parsed line of a session file.  usage is << >> when the record has no
\* usage block and << u >> when it has one; content is the item array.
Item(type, id, name, description, tool_use_id, is_error) ==
    [type |-> type, id |-> id, name |-> name, description |-> description,
     tool_use_id |-> tool_use_id, is_error |-> is_error]
\* a text item keeps its text in the description field
TextItem(text) == Item("text", "", "", text, "", FALSE)
ToolUse(id, name, description) == Item("tool_use", id, name, description, "", FALSE)
ToolResult(tool_use_id, is_error) == Item("tool_result", "", "", "", tool_use_id, is_error)

Message(type, timestamp, usage, model, content, agentId) ==
    [type |-> type, role |-> type, timestamp |-> timestamp, usage |-> usage,
     model |-> model, content |-> content, agentId |-> agentId]

UsageBlock(i, cc, cr, o) ==
    [input_tokens |-> i, cache_creation_input_tokens |-> cc,
     cache_read_input_tokens |-> cr, output_tokens |-> o,
     ephemeral_5m_input_tokens |-> Undefined,
     ephemeral_1h_input_tokens |-> Undefined]

\* ------------------------------------------------------------ token usage
OrZero(x) == IF x = Undefined THEN 0 ELSE x

createEmptyTokenUsage ==
    [inputTokens |-> 0, cacheCreationTokens |-> 0, cacheReadTokens |-> 0,
     outputTokens |-> 0, totalTokens |-> 0]

\* null is << >>, a result is << [usage, model] >>
extractTokenUsage(message) ==
    IF message.type # "assistant" \/ message.usage = << >> THEN << >>
    ELSE LET usage == message.usage[1] IN
         << [usage |->
               [inputTokens |-> OrZero(usage.input_tokens),
                cacheCreationTokens |-> OrZero(usage.cache_creation_input_tokens),
                cacheReadTokens |-> OrZero(usage.cache_read_input_tokens),
                outputTokens |-> OrZero(usage.output_tokens),
                totalTokens |-> OrZero(usage.input_tokens)
                                + OrZero(usage.cache_creation_input_tokens)
                                + OrZero(usage.cache_read_input_tokens)
                                + OrZero(usage.output_tokens)],
             model |-> IF message.model = "" THEN "unknown" ELSE message.model] >>

\* Variant for comparison: a sum that keeps the last usage only
AddUsage_LastWins(acc, usage) == usage

AddUsage(acc, usage) ==
    [inputTokens |-> acc.inputTokens + usage.inputTokens,
     cacheCreationTokens |-> acc.cacheCreationTokens + usage.cacheCreationTokens,
     cacheReadTokens |-> acc.cacheReadTokens + usage.cacheReadTokens,
     outputTokens |-> acc.outputTokens + usage.outputTokens,
     totalTokens |-> acc.totalTokens + usage.totalTokens]

aggregateTokenUsage(usages) == FoldLeft(AddUsage, createEmptyTokenUsage, usages)

\* Prices per million tokens, in cents
PRICING ==
    [keys |-> << "claude-sonnet-4-5-20250929", "claude-sonnet-4-20250514",
                 "claude-opus-4-20250514", "claude-haiku-4-20250515" >>,
     val |-> << [input |-> 300, output |-> 1500, cacheCreation |-> 375, cacheRead |-> 30],
                [input |-> 300, output |-> 1500, cacheCreation |-> 375, cacheRead |-> 30],
                [input |-> 1500, output |-> 7500, cacheCreation |-> 1875, cacheRead |-> 150],
                [input |-> 80, output |-> 400, cacheCreation |-> 100, cacheRead |-> 8] >>]
DEFAULT_PRICING_MODEL == "claude-sonnet-4-5-20250929"

calculateCost(usage, pricing) ==
    [inputCost |-> usage.inputTokens * pricing.input,
     outputCost |-> usage.outputTokens * pricing.output,
     cacheCreationCost |-> usage.cacheCreationTokens * pricing.cacheCreation,
     cacheReadCost |-> usage.cacheReadTokens * pricing.cacheRead,
     totalCost |-> usage.inputTokens * pricing.input
                   + usage.outputTokens * pricing.output
                   + usage.cacheCreationTokens * pricing.cacheCreation
                   + usage.cacheReadTokens * pricing.cacheRead]

\* ------------------------------------------------------ session classifier
\* Variant for comparison: a classifier that skips no session
shouldSkipSession_Never(messages) == FALSE

shouldSkipSession(messages) ==
    Len(messages) = 1 /\ messages[1].type = "assistant"
isAgentSession(sessionId) == startsWith(sessionId, << AgentPrefix >>)
isEmptyFile(fileSize) == fileSize = 0

\* getProjectName: strip the encoded home directory and the dash after it
getProjectName(projectId) ==
    LET prefix == << EncodedHome, "-" >> IN
    IF startsWith(projectId, prefix)
    THEN SubSeq(projectId, Len(prefix) + 1, Len(projectId))
    ELSE projectId

\* Variant for comparison: a first pass that takes every tool for a Task
CollectToolUse_AnyTool(acc, item) ==
    IF item.type = "tool_use" /\ item.description # ""
    THEN MapSet(acc, item.id, item.description) ELSE acc

\* collectAgentDescriptions: Map from agent session id to Task description
CollectToolUse(acc, item) ==
    IF item.type = "tool_use" /\ item.name = "Task" /\ item.description # ""
    THEN MapSet(acc, item.id, item.description) ELSE acc
CollectFirstPass(acc, msg) ==
    LET uses == IF msg.type = "assistant"
                THEN FoldLeft(CollectToolUse, acc.toolUseDescriptions, msg.content)
                ELSE acc.toolUseDescriptions
        SetAgent(m, item) ==
            IF item.type = "tool_result" /\ item.tool_use_id # ""
            THEN MapSet(m, item.tool_use_id, msg.agentId) ELSE m
        results == IF msg.agentId # ""
                   THEN FoldLeft(SetAgent, acc.toolResultAgentIds, msg.content)
                   ELSE acc.toolResultAgentIds
    IN [toolUseDescriptions |-> uses, toolResultAgentIds |-> results]
collectAgentDescriptions(messages) ==
    LET first == FoldLeft(CollectFirstPass,
                          [toolUseDescriptions |-> EmptyMap,
                           toolResultAgentIds |-> EmptyMap], messages)
        Join(acc, toolUseId) ==
            IF MapHas(first.toolResultAgentIds, toolUseId)
            THEN MapSet(acc, << AgentPrefix, MapGet(first.toolResultAgentIds, toolUseId) >>,
                        MapGet(first.toolUseDescriptions, toolUseId))
            ELSE acc
    IN FoldLeft(Join, EmptyMap, first.toolUseDescriptions.keys)

\* ------------------------------------------------------------- aggregator
\* The keys of a Map with number keys that were set in ascending order, as
\* Array.from(map.entries()) yields them
RECURSIVE AscendingFrom(_)
AscendingFrom(keys) ==
    IF keys = {} THEN << >>
    ELSE LET least == CHOOSE k \in keys : \A other \in keys : k <= other
         IN << least >> \o AscendingFrom(keys \ { least })
NumberKeys(map) == AscendingFrom(DOMAIN map)

\* Variant for comparison: buckets made when a message first falls into them
createEmptyAggregatedData_NoBuckets ==
    [dailyMap |-> [keys |-> << >>, val |-> << >>],
     projectMap |-> [keys |-> << >>, val |-> << >>],
     modelMap |-> [keys |-> << >>, val |-> << >>],
     hourlyMap |-> << >>,
     weekdayMap |-> << >>,
     toolUsageMap |-> [keys |-> << >>, val |-> << >>],
     totalMessages |-> 0, totalSessions |-> 0,
     minDate |-> Null, maxDate |-> Null,
     totalCacheCreation |-> 0, totalCacheRead |-> 0,
     ephemeral5mTokens |-> 0, ephemeral1hTokens |-> 0,
     allUsages |-> << >>, allCosts |-> << >>,
     totalAgentSessions |-> 0]

EmptyBucket ==
    [tokenUsage |-> createEmptyTokenUsage, sessionIds |-> {}, messageCount |-> 0]

createEmptyAggregatedData ==
    [dailyMap |-> EmptyMap, projectMap |-> EmptyMap, modelMap |-> EmptyMap,
     hourlyMap |-> [hour \in 0..23 |-> EmptyBucket],
     weekdayMap |-> [weekday \in 0..6 |-> EmptyBucket],
     toolUsageMap |-> EmptyMap,
     totalMessages |-> 0, totalSessions |-> 0,
     minDate |-> Null, maxDate |-> Null,
     totalCacheCreation |-> 0, totalCacheRead |-> 0,
     ephemeral5mTokens |-> 0, ephemeral1hTokens |-> 0,
     allUsages |-> << >>, allCosts |-> << >>,
     totalAgentSessions |-> 0]

\* Variant for comparison: a bucket that keeps one entry per message instead of a Set of ids
AddToBucket_PerMessage(bucket, usage, sessionId) ==
    [bucket EXCEPT !.tokenUsage = AddUsage(@, usage),
                   !.sessionIds = @ \cup { IF sessionId \in @
                                           THEN Append(sessionId, ToString(Cardinality(@)))
                                           ELSE sessionId }]

\* bucket.tokenUsage += usage; bucket.sessionIds.add(sessionId)
AddToBucket(bucket, usage, sessionId) ==
    [bucket EXCEPT !.tokenUsage = AddUsage(@, usage),
                   !.sessionIds = @ \cup { sessionId }]
\* Variant for comparison: hour and weekday buckets that do not count messages
AddToCountedBucket_Uncounted(bucket, usage, sessionId) ==
    AddToBucket(bucket, usage, sessionId)

\* ... and one more message, for the hour and weekday buckets
AddToCountedBucket(bucket, usage, sessionId) ==
    [AddToBucket(bucket, usage, sessionId) EXCEPT !.messageCount = @ + 1]

\* Variant for comparison: an outcome of an unknown invocation is credited to
\* the tool seen first
CountToolResult_Unmatched(toolUseIdMap, toolUsageMap, item) ==
    IF item.type = "tool_result" /\ ~item.is_error /\ toolUsageMap.keys # << >>
    THEN LET toolName == IF /\ MapHas(toolUseIdMap, item.tool_use_id)
                            /\ MapHas(toolUsageMap, MapGet(toolUseIdMap, item.tool_use_id))
                         THEN MapGet(toolUseIdMap, item.tool_use_id)
                         ELSE toolUsageMap.keys[1] IN
         MapSet(toolUsageMap, toolName,
                [MapGet(toolUsageMap, toolName) EXCEPT !.successful = @ + 1])
    ELSE toolUsageMap

\* The tool_result items of a user record: one more success for the tool
\* whose invocation id the session's toolUseIdMap knows
CountToolResult(toolUseIdMap, toolUsageMap, item) ==
    IF /\ item.type = "tool_result"
       /\ MapHas(toolUseIdMap, item.tool_use_id)
       /\ ~item.is_error
       /\ MapHas(toolUsageMap, MapGet(toolUseIdMap, item.tool_use_id))
    THEN LET toolName == MapGet(toolUseIdMap, item.tool_use_id) IN
         MapSet(toolUsageMap, toolName,
                [MapGet(toolUsageMap, toolName) EXCEPT !.successful = @ + 1])
    ELSE toolUsageMap

\* The tool_use items of an assistant record that carries a usage block
CountToolUse(st, item) ==
    IF item.type = "tool_use" /\ item.id # "" /\ item.name # ""
    THEN LET stats == IF MapHas(st.data.toolUsageMap, item.name)
                      THEN MapGet(st.data.toolUsageMap, item.name)
                      ELSE [total |-> 0, successful |-> 0]
         IN [st EXCEPT !.toolUseIdMap = MapSet(@, item.id, item.name),
                       !.data.toolUsageMap =
                           MapSet(@, item.name, [stats EXCEPT !.total = @ + 1])]
    ELSE st

\* Variant for comparison: a price lookup without the default model's prices
PricingOf_NoFallback(model) ==
    IF MapHas(PRICING, model) THEN MapGet(PRICING, model)
    ELSE [input |-> 0, output |-> 0, cacheCreation |-> 0, cacheRead |-> 0]

\* PRICING[model] || PRICING[DEFAULT_PRICING_MODEL]
PricingOf(model) ==
    IF MapHas(PRICING, model) THEN MapGet(PRICING, model)
    ELSE MapGet(PRICING, DEFAULT_PRICING_MODEL)

\* The updates of processMessage for a record with a usage block, up to the
\* lookup of the hour bucket
UsageHead(data, message, sessionId, result) ==
    LET usage == result.usage
        messageDate == message.timestamp
        dateKey == formatDateLocal(messageDate)
        daily == IF MapHas(data.dailyMap, dateKey) THEN MapGet(data.dailyMap, dateKey)
                 ELSE [tokenUsage |-> createEmptyTokenUsage, sessionIds |-> {}]
    IN [data EXCEPT
          !.minDate = IF @ = Null \/ DateLt(messageDate, @) THEN messageDate ELSE @,
          !.maxDate = IF @ = Null \/ DateLt(@, messageDate) THEN messageDate ELSE @,
          !.totalMessages = @ + 1,
          !.allUsages = Append(@, usage),
          !.allCosts = Append(@, calculateCost(usage, PricingOf(result.model)).totalCost),
          !.dailyMap = MapSet(@, dateKey, AddToBucket(daily, usage, sessionId))]

\* Variant for comparison: the project bucket looked up by display name
UsageTail_ByName(data, message, sessionId, projectId, result) ==
    LET usage == result.usage
        model == result.model
        messageDate == message.timestamp
        project == IF MapHas(data.projectMap, getProjectName(projectId))
                   THEN MapGet(data.projectMap, getProjectName(projectId))
                   ELSE [tokenUsage |-> createEmptyTokenUsage, sessionIds |-> {},
                         name |-> getProjectName(projectId)]
        modelData == IF MapHas(data.modelMap, model) THEN MapGet(data.modelMap, model)
                     ELSE [tokenUsage |-> createEmptyTokenUsage, messageCount |-> 0]
        cacheCreation == message.usage[1]
    IN [data EXCEPT
          !.hourlyMap[getHours(messageDate)] = AddToCountedBucket(@, usage, sessionId),
          !.weekdayMap[getDay(messageDate)] = AddToCountedBucket(@, usage, sessionId),
          !.projectMap = MapSet(@, getProjectName(projectId),
                                [project EXCEPT !.tokenUsage = AddUsage(@, usage)]),
          !.modelMap = MapSet(@, model,
                              [modelData EXCEPT !.tokenUsage = AddUsage(@, usage),
                                                !.messageCount = @ + 1]),
          !.totalCacheCreation = @ + usage.cacheCreationTokens,
          !.totalCacheRead = @ + usage.cacheReadTokens,
          !.ephemeral5mTokens = @ + OrZero(cacheCreation.ephemeral_5m_input_tokens),
          !.ephemeral1hTokens = @ + OrZero(cacheCreation.ephemeral_1h_input_tokens)]

\* ... and from the hour bucket to the cache statistics
UsageTail(data, message, sessionId, projectId, result) ==
    LET usage == result.usage
        model == result.model
        messageDate == message.timestamp
        project == IF MapHas(data.projectMap, projectId)
                   THEN MapGet(data.projectMap, projectId)
                   ELSE [tokenUsage |-> createEmptyTokenUsage, sessionIds |-> {},
                         name |-> getProjectName(projectId)]
        modelData == IF MapHas(data.modelMap, model) THEN MapGet(data.modelMap, model)
                     ELSE [tokenUsage |-> createEmptyTokenUsage, messageCount |-> 0]
        cacheCreation == message.usage[1]
    IN [data EXCEPT
          !.hourlyMap[getHours(messageDate)] = AddToCountedBucket(@, usage, sessionId),
          !.weekdayMap[getDay(messageDate)] = AddToCountedBucket(@, usage, sessionId),
          !.projectMap = MapSet(@, projectId,
                                [project EXCEPT !.tokenUsage = AddUsage(@, usage)]),
          !.modelMap = MapSet(@, model,
                              [modelData EXCEPT !.tokenUsage = AddUsage(@, usage),
                                                !.messageCount = @ + 1]),
          !.totalCacheCreation = @ + usage.cacheCreationTokens,
          !.totalCacheRead = @ + usage.cacheReadTokens,
          !.ephemeral5mTokens = @ + OrZero(cacheCreation.ephemeral_5m_input_tokens),
          !.ephemeral1hTokens = @ + OrZero(cacheCreation.ephemeral_1h_input_tokens)]

\* processMessage on the fold state st = [data, toolUseIdMap, threw]; threw is
\* the TypeError of reading .tokenUsage of hourlyMap.get(NaN), which is
\* undefined for a record whose timestamp does not parse
processMessage(st, message, sessionId, projectId) ==
    LET results == IF message.type = "user"
                   THEN FoldLeft(LAMBDA m, item : CountToolResult(st.toolUseIdMap, m, item),
                                 st.data.toolUsageMap, message.content)
                   ELSE st.data.toolUsageMap
        st1 == [st EXCEPT !.data.toolUsageMap = results]
        extracted == extractTokenUsage(message)
    IN IF extracted = << >> THEN st1
       ELSE LET head == UsageHead(st1.data, message, sessionId, extracted[1]) IN
            IF getHours(message.timestamp) \notin DOMAIN head.hourlyMap
            THEN [st1 EXCEPT !.data = head, !.threw = TRUE]
            ELSE LET st2 == [st1 EXCEPT !.data = UsageTail(head, message, sessionId,
                                                           projectId, extracted[1])]
                 IN IF message.role = "assistant"
                    THEN FoldLeft(CountToolUse, st2, message.content)
                    ELSE st2

\* Variant for comparison: a cutoff that excludes the instant of the cutoff itself
BeforeCutoff_Exclusive(messageDate, cutoffDate) == DateLe(messageDate, cutoffDate)

\* The cutoff test of the message loop
BeforeCutoff(messageDate, cutoffDate) == DateLt(messageDate, cutoffDate)

\* for (const message of messages): skip records before the cutoff, stop at
\* the first throw
FoldMessage(cutoffDate, sessionId, projectId, st, message) ==
    IF st.threw \/ BeforeCutoff(message.timestamp, cutoffDate) THEN st
    ELSE processMessage(st, message, sessionId, projectId)
FoldMessages(data, messages, cutoffDate, sessionId, projectId) ==
    FoldLeft(LAMBDA st, message : FoldMessage(cutoffDate, sessionId, projectId, st, message),
             [data |-> data, toolUseIdMap |-> EmptyMap, threw |-> FALSE], messages)

\* ------------------------------------------------------- report assembler
\* Array.prototype.sort is stable: x goes before the first element it is
\* strictly before
RECURSIVE InsertSorted(_, _, _)
InsertSorted(Before(_, _), sorted, x) ==
    IF sorted = << >> THEN << x >>
    ELSE IF Before(x, Head(sorted)) THEN << x >> \o sorted
    ELSE << Head(sorted) >> \o InsertSorted(Before, Tail(sorted), x)
SortBy(Before(_, _), s) ==
    FoldLeft(LAMBDA sorted, x : InsertSorted(Before, sorted, x), << >>, s)

Selectors == { [all |-> TRUE, n |-> 0], [all |-> FALSE, n |-> WindowDays] }

calculateCutoffDate(days, today) ==
    IF days.all THEN MidnightOf(0) + getHours(today)
    ELSE MidnightOf(DayOf(today) - days.n)

\* fillMissingDates(dailyMap, startDate, endDate)
RECURSIVE fillMissingDates(_, _, _)
fillMissingDates(dailyMap, currentDate, endDate) ==
    IF ~DateLe(currentDate, endDate) THEN << >>
    ELSE LET dateKey == formatDateLocal(currentDate) IN
         << [date |-> dateKey,
             tokenUsage |-> IF MapHas(dailyMap, dateKey)
                            THEN MapGet(dailyMap, dateKey).tokenUsage
                            ELSE createEmptyTokenUsage,
             sessionCount |-> IF MapHas(dailyMap, dateKey)
                              THEN Cardinality(MapGet(dailyMap, dateKey).sessionIds)
                              ELSE 0] >>
         \o fillMissingDates(dailyMap, currentDate + HoursPerDay, endDate)

MapEntries(m) == [i \in DOMAIN m.keys |-> [key |-> m.keys[i], value |-> m.val[i]]]
\* Variant for comparison: the division without its guard
Percent_Unguarded(part, whole) == [num |-> part * 100, den |-> whole]

Percent(part, whole) ==
    IF whole > 0 THEN [num |-> part * 100, den |-> whole] ELSE [num |-> 0, den |-> 1]

DailyStart(days, cutoffDate, data) ==
    IF days.all /\ data.minDate # Null THEN data.minDate ELSE cutoffDate

ToolUsageList(data) ==
    SortBy(LAMBDA a, b : a.totalUses > b.totalUses,
           [i \in DOMAIN data.toolUsageMap.keys |->
              [toolName |-> data.toolUsageMap.keys[i],
               totalUses |-> data.toolUsageMap.val[i].total,
               successfulUses |-> data.toolUsageMap.val[i].successful,
               successRate |-> Percent(data.toolUsageMap.val[i].successful,
                                       data.toolUsageMap.val[i].total)]])

\* The part of the report that both endpoints build alike
BuildReport(days, cutoffDate, today, data, byProject) ==
    LET totalUsage == aggregateTokenUsage(data.allUsages)
        defaultPricing == MapGet(PRICING, DEFAULT_PRICING_MODEL)
    IN [overview |-> [tokenUsage |-> totalUsage,
                      sessionCount |-> data.totalSessions,
                      messageCount |-> data.totalMessages],
        daily |-> fillMissingDates(data.dailyMap, DailyStart(days, cutoffDate, data), today),
        byProject |-> byProject,
        byModel |-> SortBy(LAMBDA a, b : a.tokenUsage.totalTokens > b.tokenUsage.totalTokens,
                           [i \in DOMAIN data.modelMap.keys |->
                              [model |-> data.modelMap.keys[i],
                               tokenUsage |-> data.modelMap.val[i].tokenUsage,
                               messageCount |-> data.modelMap.val[i].messageCount]]),
        cache |-> [totalCacheCreation |-> data.totalCacheCreation,
                   totalCacheRead |-> data.totalCacheRead,
                   ephemeral5mTokens |-> data.ephemeral5mTokens,
                   ephemeral1hTokens |-> data.ephemeral1hTokens,
                   cacheHitRate |-> Percent(data.totalCacheRead,
                                            data.totalCacheCreation + data.totalCacheRead),
                   estimatedSavings |-> data.totalCacheRead
                                        * (defaultPricing.input - defaultPricing.cacheRead)],
        cost |-> calculateCost(totalUsage, defaultPricing),
        productivity |-> [toolUsage |-> ToolUsageList(data),
                          totalToolCalls |-> SumSeq([i \in DOMAIN data.toolUsageMap.val |->
                                                       data.toolUsageMap.val[i].total]),
                          agentSessions |-> data.totalAgentSessions,
                          totalSessions |-> data.totalSessions,
                          agentUsageRate |-> Percent(data.totalAgentSessions,
                                                     data.totalSessions)],
        trends |-> LET hours == NumberKeys(data.hourlyMap)
                       weekdays == NumberKeys(data.weekdayMap)
                   IN [byHour |-> SortBy(LAMBDA a, b : a.hour < b.hour,
                                         [i \in DOMAIN hours |->
                                            [hour |-> hours[i],
                                             sessionCount |-> Cardinality(data.hourlyMap[hours[i]].sessionIds),
                                             messageCount |-> data.hourlyMap[hours[i]].messageCount,
                                             tokenUsage |-> data.hourlyMap[hours[i]].tokenUsage]]),
                       byWeekday |-> SortBy(LAMBDA a, b : a.weekday < b.weekday,
                                            [i \in DOMAIN weekdays |->
                                               [weekday |-> weekdays[i],
                                                sessionCount |-> Cardinality(data.weekdayMap[weekdays[i]].sessionIds),
                                                messageCount |-> data.weekdayMap[weekdays[i]].messageCount,
                                                tokenUsage |-> data.weekdayMap[weekdays[i]].tokenUsage]])]]

\* Variant for comparison: every project entry given the session count of the whole archive
getOverallStatistics_TotalSessions(days, cutoffDate, today, data) ==
    BuildReport(days, cutoffDate, today, data,
        SortBy(LAMBDA a, b : a.tokenUsage.totalTokens > b.tokenUsage.totalTokens,
               [i \in DOMAIN data.projectMap.keys |->
                  [id |-> data.projectMap.keys[i],
                   name |-> data.projectMap.val[i].name,
                   tokenUsage |-> data.projectMap.val[i].tokenUsage,
                   sessionCount |-> data.totalSessions]]))

getOverallStatistics(days, cutoffDate, today, data) ==
    BuildReport(days, cutoffDate, today, data,
        SortBy(LAMBDA a, b : a.tokenUsage.totalTokens > b.tokenUsage.totalTokens,
               [i \in DOMAIN data.projectMap.keys |->
                  [id |-> data.projectMap.keys[i],
                   name |-> data.projectMap.val[i].name,
                   tokenUsage |-> data.projectMap.val[i].tokenUsage,
                   sessionCount |-> Cardinality(data.projectMap.val[i].sessionIds)]]))

getProjectStatistics(projectId, days, cutoffDate, today, data) ==
    BuildReport(days, cutoffDate, today, data,
        IF MapHas(data.projectMap, projectId)
        THEN << [id |-> projectId,
                 name |-> MapGet(data.projectMap, projectId).name,
                 tokenUsage |-> aggregateTokenUsage(data.allUsages),
                 sessionCount |-> data.totalSessions] >>
        ELSE << >>)

\* -------------------------------------------------------- session listing
\* A file of a project directory: parseJsonl throws on a file with a
\* malformed line; the byte size is counted in lines
File(name, mtime, malformed, messages) ==
    [name |-> name, mtime |-> mtime, malformed |-> malformed, messages |-> messages]
FileSize(file) == IF file.malformed THEN Len(file.messages) + 1 ELSE Len(file.messages)
ParseFails(file) == file.malformed
SessionIdOf(file) == replaceFirst(file.name, Jsonl)

\* extractSessionTitle: the first text of the first user record that has one
UserTexts(messages) ==
    SelectSeq(messages, LAMBDA msg :
        msg.type = "user"
        /\ \E i \in DOMAIN msg.content :
              msg.content[i].type = "text" /\ msg.content[i].description # "")
extractSessionTitle(messages) ==
    IF UserTexts(messages) = << >> THEN "Untitled Session"
    ELSE LET items == SelectSeq(Head(UserTexts(messages)).content,
                                LAMBDA item : item.type = "text" /\ item.description # "")
         IN Head(items).description

\* First pass of getProjectSessions: main sessions in allSessions, agent
\* sessions in agentSessionsMap; a file that does not parse is skipped
LoadSession(projectId, acc, file) ==
    IF ~endsWith(file.name, Jsonl) \/ isEmptyFile(FileSize(file)) \/ ParseFails(file)
       \/ shouldSkipSession(file.messages)
    THEN acc
    ELSE LET session == [id |-> SessionIdOf(file), projectId |-> projectId,
                         projectName |-> getProjectName(projectId),
                         timestamp |-> file.mtime,
                         messageCount |-> Len(file.messages),
                         title |-> extractSessionTitle(file.messages),
                         isAgent |-> isAgentSession(SessionIdOf(file)),
                         descriptions |-> collectAgentDescriptions(file.messages),
                         hasAgentSessions |-> FALSE,
                         agentSessions |-> << >>]
         IN IF session.isAgent
            THEN [acc EXCEPT !.agentSessionsMap = MapSet(@, session.id, session)]
            ELSE [acc EXCEPT !.allSessions = Append(@, session)]

\* attachAgentSessionsToParent for the parent at index i: the agent session
\* objects are shared, so a title set here is seen through every reference
AttachOne(parentIndex, acc, agentSessionId) ==
    IF MapHas(acc.agentSessionsMap, agentSessionId)
    THEN LET description == MapGet(acc.allSessions[parentIndex].descriptions, agentSessionId) IN
         [acc EXCEPT
            !.agentSessionsMap =
                MapSet(@, agentSessionId,
                       [MapGet(@, agentSessionId) EXCEPT !.title = description]),
            !.allSessions[parentIndex].agentSessions = Append(@, agentSessionId)]
    ELSE acc
attachAgentSessionsToParent(acc, parentIndex) ==
    LET agentDescriptions == acc.allSessions[parentIndex].descriptions IN
    IF MapSize(agentDescriptions) = 0 THEN acc
    ELSE LET attached == FoldLeft(LAMBDA a, id : AttachOne(parentIndex, a, id),
                                  [acc EXCEPT !.allSessions[parentIndex].hasAgentSessions = TRUE],
                                  agentDescriptions.keys)
         IN [attached EXCEPT !.allSessions[parentIndex].agentSessions =
                SortBy(LAMBDA a, b : MapGet(attached.agentSessionsMap, a).timestamp
                                       < MapGet(attached.agentSessionsMap, b).timestamp, @)]

getProjectSessions(project) ==
    LET loaded == FoldLeft(LAMBDA acc, file : LoadSession(project.id, acc, file),
                           [allSessions |-> << >>, agentSessionsMap |-> EmptyMap],
                           project.files)
    IN FoldLeft(attachAgentSessionsToParent, loaded,
                [i \in DOMAIN loaded.allSessions |-> i])

\* getAllProjectsWithSessions: one group per directory that has sessions
AddProjectGroup(groups, project) ==
    IF ~project.isDirectory THEN groups
    ELSE LET listed == getProjectSessions(project)
             sessions == SortBy(LAMBDA a, b : a.timestamp > b.timestamp, listed.allSessions)
         IN IF Len(sessions) = 0 THEN groups
            ELSE Append(groups, [name |-> project.id,
                                 displayName |-> getProjectName(project.id),
                                 sessionCount |-> Len(sessions),
                                 lastActivity |-> sessions[1].timestamp,
                                 sessions |-> sessions,
                                 agents |-> listed.agentSessionsMap])
getAllProjectsWithSessions(projects) ==
    SortBy(LAMBDA a, b : a.lastActivity > b.lastActivity,
           FoldLeft(AddProjectGroup, << >>, projects))

\* ------------------------------------------------------------ the archive
\* Instants the records of the archive carry, placed around the cutoff of the
\* numeric window
Now == MidnightOf(TodayDay) + 10
WindowCutoff == MidnightOf(TodayDay - WindowDays)
TBefore == WindowCutoff - 1
TAt == WindowCutoff
TMid == MidnightOf(TodayDay - 1) + 15
TFuture == MidnightOf(TodayDay + 1) + 8

RECURSIVE SeqsUpTo(_, _)
SeqsUpTo(S, n) ==
    IF n = 0 THEN { << >> }
    ELSE LET shorter == SeqsUpTo(S, n - 1) IN
         shorter \cup { Append(q, x) : q \in shorter, x \in S }

FullUsage == << UsageBlock(2, 1, 4, 3) >>
PartialUsage == << UsageBlock(5, Undefined, Undefined, Undefined) >>
Sonnet == "claude-sonnet-4-5-20250929"
Opus == "claude-opus-4-20250514"

UsageAt(t) == Message("assistant", t, FullUsage, Sonnet, << TextItem("answer") >>, "")
UserText == Message("user", TMid, << >>, "", << TextItem("question") >>, "")

WindowRecords ==
    { UsageAt(t) : t \in { TBefore, TAt, TMid, TFuture, NaN } }
    \cup { Message("assistant", TMid, PartialUsage, "", << >>, ""), UserText }

ToolRecords ==
    { Message("assistant", TMid, FullUsage, Opus, << ToolUse("t1", "Task", "explore") >>, ""),
      Message("assistant", TBefore, FullUsage, Sonnet, << ToolUse("t1", "Task", "explore") >>, ""),
      Message("assistant", TMid, << >>, Sonnet, << ToolUse("t2", "Bash", "") >>, ""),
      Message("user", TMid, << >>, "", << ToolResult("t1", FALSE) >>, "a1"),
      Message("user", TBefore, << >>, "", << ToolResult("t1", FALSE) >>, "a1"),
      Message("user", TMid, << >>, "", << ToolResult("t1", TRUE) >>, ""),
      Message("user", TMid, << >>, "", << ToolResult("t2", FALSE) >>, ""),
      Message("user", TMid, << >>, "", << ToolResult("t9", FALSE) >>, "") }

ProjectA == << EncodedHome, "-", "app" >>
ProjectB == << "app" >>
NotADirectory == << "notes" >>
MissingProject == << "gone" >>

S1 == << "s1", Jsonl >>
S2 == << "s2", Jsonl >>
AgentA1 == << AgentPrefix, "a1", Jsonl >>

\* What else lies in project A beside s1, and what lies in project B
SecondFiles ==
    { << >>,
      << File(S2, 30, FALSE, << UserText, UsageAt(TMid) >>) >>,
      << File(S2, 30, TRUE, << UsageAt(TMid) >>) >>,
      << File(S2, 30, FALSE, << UsageAt(TMid) >>) >>,
      << File(S2, 30, FALSE, << >>), File(<< "memo.txt" >>, 5, FALSE, << UserText >>) >> }
AgentFiles ==
    { << >>,
      << File(AgentA1, 40, FALSE,
              << UserText,
                 Message("assistant", TMid, FullUsage, Sonnet,
                         << ToolUse("t5", "Read", "") >>, ""),
                 Message("user", TMid, << >>, "", << ToolResult("t5", FALSE) >>, "") >>) >> }
OtherProjectFiles ==
    { << >>, << File(S1, 20, FALSE, << UserText, UsageAt(TMid) >>) >> }

Archive(filesA, filesB) ==
    << [id |-> ProjectA, isDirectory |-> TRUE, files |-> filesA],
       [id |-> NotADirectory, isDirectory |-> FALSE, files |-> << >>],
       [id |-> ProjectB, isDirectory |-> TRUE, files |-> filesB] >>

WindowArchives ==
    { Archive(<< File(S1, 10, FALSE, messages) >> \o second, other) :
        messages \in SeqsUpTo(WindowRecords, MaxRecords),
        second \in SecondFiles, other \in OtherProjectFiles }
ToolArchives ==
    { Archive(agent \o << File(S1, 10, FALSE, messages) >>, << >>) :
        messages \in SeqsUpTo(ToolRecords, MaxToolRecords), agent \in AgentFiles }
Archives == WindowArchives \cup ToolArchives

\* ------------------------------------------------------------------- state
VARIABLES
    archive,      \* ~/.claude/projects: the readdir order of project entries
    now,          \* the clock of the server
    pc,           \* where the request handler is
    request,      \* [kind, days, projectId] of the request being served
    cutoffDate,   \* calculateCutoffDate(days)
    data,         \* the AggregatedData of the request
    pi,           \* index of the project entry being scanned
    fi,           \* index of the file being scanned
    response      \* [code, report, projects]: the reply, code 0 while pending

vars == << archive, now, pc, request, cutoffDate, data, pi, fi, response >>

NoRequest == [kind |-> "none", days |-> [all |-> FALSE, n |-> 0], projectId |-> << >>]
NoResponse == [code |-> 0, report |-> << >>, projects |-> << >>]

Init ==
    /\ archive \in Archives
    /\ now = Now
    /\ pc = "idle"
    /\ request = NoRequest
    /\ cutoffDate = 0
    /\ data = createEmptyAggregatedData
    /\ pi = 0
    /\ fi = 0
    /\ response = NoResponse

ProjectIndex(projectId) ==
    IF \E i \in DOMAIN archive : archive[i].id = projectId
    THEN CHOOSE i \in DOMAIN archive : archive[i].id = projectId
    ELSE 0

\* Variant for comparison: a directory without files taken for a missing one
IsProjectDirectory_NonEmpty(projectId) ==
    IF ProjectIndex(projectId) = 0 THEN FALSE
    ELSE /\ archive[ProjectIndex(projectId)].isDirectory
         /\ archive[ProjectIndex(projectId)].files # << >>

\* stat(projectPath) succeeds and isDirectory()
IsProjectDirectory(projectId) ==
    IF ProjectIndex(projectId) = 0 THEN FALSE
    ELSE archive[ProjectIndex(projectId)].isDirectory

\* GET /api/statistics/overall?days=...
StartOverall(days) ==
    /\ pc = "idle"
    /\ request' = [kind |-> "overall", days |-> days, projectId |-> << >>]
    /\ cutoffDate' = calculateCutoffDate(days, now)
    /\ data' = createEmptyAggregatedData
    /\ pi' = 1
    /\ fi' = 0
    /\ pc' = "projects"
    /\ UNCHANGED << archive, now, response >>

\* aggregateAllProjects: an entry of the projects directory that is no directory
SkipEntry ==
    /\ pc = "projects"
    /\ pi <= Len(archive)
    /\ ~archive[pi].isDirectory
    /\ pi' = pi + 1
    /\ UNCHANGED << archive, now, pc, request, cutoffDate, data, fi, response >>

\* aggregateAllProjects: readdir of a project directory, its projectMap entry
EnterProject ==
    /\ pc = "projects"
    /\ pi <= Len(archive)
    /\ archive[pi].isDirectory
    /\ data' = IF MapHas(data.projectMap, archive[pi].id) THEN data
               ELSE [data EXCEPT !.projectMap =
                        MapSet(@, archive[pi].id,
                               [tokenUsage |-> createEmptyTokenUsage, sessionIds |-> {},
                                name |-> getProjectName(archive[pi].id)])]
    /\ fi' = 1
    /\ pc' = "files"
    /\ UNCHANGED << archive, now, request, cutoffDate, pi, response >>

\* GET /api/statistics/projects/:projectId?days=... on a missing directory
ProjectNotFound(projectId) ==
    /\ pc = "idle"
    /\ ~IsProjectDirectory(projectId)
    /\ request' = [kind |-> "project", days |-> [all |-> FALSE, n |-> 0],
                   projectId |-> projectId]
    /\ response' = [NoResponse EXCEPT !.code = 404]
    /\ pc' = "done"
    /\ UNCHANGED << archive, now, cutoffDate, data, pi, fi >>

\* ... and on an existing one: aggregateProject reads the directory
StartProject(projectId, days) ==
    /\ pc = "idle"
    /\ IsProjectDirectory(projectId)
    /\ request' = [kind |-> "project", days |-> days, projectId |-> projectId]
    /\ cutoffDate' = calculateCutoffDate(days, now)
    /\ data' = createEmptyAggregatedData
    /\ pi' = ProjectIndex(projectId)
    /\ fi' = 1
    /\ pc' = "files"
    /\ UNCHANGED << archive, now, response >>

CurrentFile == archive[pi].files[fi]
AtFile == pc = "files" /\ fi <= Len(archive[pi].files)

\* Variant for comparison: the loop without its isAgentSession test
SkippedBeforeParse_AgentsScanned(file) ==
    \/ ~endsWith(file.name, Jsonl)
    \/ isEmptyFile(FileSize(file))

\* The files the loop passes over before parsing them
SkippedBeforeParse(file) ==
    \/ ~endsWith(file.name, Jsonl)
    \/ isAgentSession(SessionIdOf(file))
    \/ isEmptyFile(FileSize(file))

SkipFile ==
    /\ AtFile
    /\ \/ SkippedBeforeParse(CurrentFile)
       \/ ~ParseFails(CurrentFile) /\ shouldSkipSession(CurrentFile.messages)
    /\ fi' = fi + 1
    /\ UNCHANGED << archive, now, pc, request, cutoffDate, data, pi, response >>

\* Variant for comparison: session counters that count a session only for a record in the window
CountSession_InWindowOnly(d, kind, projectId, sessionId, messages) ==
    IF \A k \in DOMAIN messages : BeforeCutoff(messages[k].timestamp, cutoffDate) THEN d
    ELSE LET isAgent == MapSize(collectAgentDescriptions(messages)) > 0
             d1 == IF isAgent THEN [d EXCEPT !.totalAgentSessions = @ + 1] ELSE d
             d2 == IF kind = "overall"
                   THEN [d1 EXCEPT !.projectMap =
                            MapSet(@, projectId,
                                   [MapGet(@, projectId) EXCEPT !.sessionIds = @ \cup { sessionId }])]
                   ELSE d1
         IN [d2 EXCEPT !.totalSessions = @ + 1]

\* Variant for comparison: a sessions-with-agents counter that counts every link
CountSession_PerLink(d, kind, projectId, sessionId, messages) ==
    LET d1 == [d EXCEPT !.totalAgentSessions =
                  @ + MapSize(collectAgentDescriptions(messages))]
        d2 == IF kind = "overall"
              THEN [d1 EXCEPT !.projectMap =
                       MapSet(@, projectId,
                              [MapGet(@, projectId) EXCEPT !.sessionIds = @ \cup { sessionId }])]
              ELSE d1
    IN [d2 EXCEPT !.totalSessions = @ + 1]

\* The session counters of one included file, then its message loop
CountSession(d, kind, projectId, sessionId, messages) ==
    LET isAgent == MapSize(collectAgentDescriptions(messages)) > 0
        d1 == IF isAgent THEN [d EXCEPT !.totalAgentSessions = @ + 1] ELSE d
        d2 == IF kind = "overall"
              THEN [d1 EXCEPT !.projectMap =
                       MapSet(@, projectId,
                              [MapGet(@, projectId) EXCEPT !.sessionIds = @ \cup { sessionId }])]
              ELSE d1
    IN [d2 EXCEPT !.totalSessions = @ + 1]
\* Variant for comparison: a fold that also walks the agent files the session links to
FoldFileResult_WalkAgents ==
    LET own == FoldMessages(CountSession(data, request.kind, archive[pi].id,
                                         SessionIdOf(CurrentFile), CurrentFile.messages),
                            CurrentFile.messages, cutoffDate, SessionIdOf(CurrentFile),
                            archive[pi].id)
        linked == SelectSeq(archive[pi].files, LAMBDA file :
                      /\ ~ParseFails(file)
                      /\ MapHas(collectAgentDescriptions(CurrentFile.messages), SessionIdOf(file)))
    IN FoldLeft(LAMBDA st, file :
                    [FoldMessages(st.data, file.messages, cutoffDate,
                                  SessionIdOf(CurrentFile), archive[pi].id)
                       EXCEPT !.threw = @ \/ st.threw],
                own, linked)

FoldFileResult ==
    FoldMessages(CountSession(data, request.kind, archive[pi].id,
                              SessionIdOf(CurrentFile), CurrentFile.messages),
                 CurrentFile.messages, cutoffDate, SessionIdOf(CurrentFile), archive[pi].id)

FoldFile ==
    /\ AtFile
    /\ ~SkippedBeforeParse(CurrentFile)
    /\ ~ParseFails(CurrentFile)
    /\ ~shouldSkipSession(CurrentFile.messages)
    /\ ~FoldFileResult.threw
    /\ data' = FoldFileResult.data
    /\ fi' = fi + 1
    /\ UNCHANGED << archive, now, pc, request, cutoffDate, pi, response >>

\* An exception of parseJsonl or processMessage is caught by the route alone
FoldFileThrows ==
    /\ AtFile
    /\ ~SkippedBeforeParse(CurrentFile)
    /\ \/ ParseFails(CurrentFile)
       \/ /\ ~ParseFails(CurrentFile)
          /\ ~shouldSkipSession(CurrentFile.messages)
          /\ FoldFileResult.threw
    /\ response' = [NoResponse EXCEPT !.code = 500]
    /\ pc' = "done"
    /\ UNCHANGED << archive, now, request, cutoffDate, data, pi, fi >>

EndOfProject ==
    /\ pc = "files"
    /\ fi > Len(archive[pi].files)
    /\ request.kind = "overall"
    /\ pi' = pi + 1
    /\ pc' = "projects"
    /\ UNCHANGED << archive, now, request, cutoffDate, data, fi, response >>

ReplyOverall ==
    /\ pc = "projects"
    /\ pi > Len(archive)
    /\ response' = [NoResponse EXCEPT
                      !.code = 200,
                      !.report = << getOverallStatistics(request.days, cutoffDate, now, data) >>]
    /\ pc' = "done"
    /\ UNCHANGED << archive, now, request, cutoffDate, data, pi, fi >>

ReplyProject ==
    /\ pc = "files"
    /\ fi > Len(archive[pi].files)
    /\ request.kind = "project"
    /\ response' = [NoResponse EXCEPT
                      !.code = 200,
                      !.report = << getProjectStatistics(request.projectId, request.days,
                                                         cutoffDate, now, data) >>]
    /\ pc' = "done"
    /\ UNCHANGED << archive, now, request, cutoffDate, data, pi, fi >>

\* GET /api/sessions
ListSessions ==
    /\ pc = "idle"
    /\ request' = [NoRequest EXCEPT !.kind = "sessions"]
    /\ response' = [NoResponse EXCEPT !.code = 200,
                                      !.projects = getAllProjectsWithSessions(archive)]
    /\ pc' = "done"
    /\ UNCHANGED << archive, now, cutoffDate, data, pi, fi >>

RequestedProjects == { ProjectA, ProjectB, NotADirectory, MissingProject }

Next ==
    \/ \E days \in Selectors : StartOverall(days)
    \/ SkipEntry
    \/ EnterProject
    \/ \E projectId \in RequestedProjects : ProjectNotFound(projectId)
    \/ \E projectId \in RequestedProjects, days \in Selectors : StartProject(projectId, days)
    \/ SkipFile
    \/ FoldFile
    \/ FoldFileThrows
    \/ EndOfProject
    \/ ReplyOverall
    \/ ReplyProject
    \/ ListSessions

Spec == Init /\ [][Next]_vars

\* ------------------------------------------------- vocabulary of the claims
\* What the archive holds, read off the files without the aggregator
StatsReplied ==
    pc = "done" /\ request.kind \in { "overall", "project" } /\ response.code = 200
Report == response.report[1]
NumericWindow == ~request.days.all

ScopeProjects ==
    IF request.kind = "overall" THEN { i \in DOMAIN archive : archive[i].isDirectory }
    ELSE IF request.kind = "project" THEN { ProjectIndex(request.projectId) } \ { 0 }
    ELSE {}

IsSessionFile(file) == file.name[Len(file.name)] = Jsonl
IsAgentFile(file) == IsSessionFile(file) /\ file.name[1] = AgentPrefix
IsDegenerate(file) == Len(file.messages) = 1 /\ file.messages[1].type = "assistant"
\* a main session: a session file, no agent file, parsed, not degenerate
IsMainSession(file) ==
    /\ IsSessionFile(file) /\ ~IsAgentFile(file)
    /\ ~file.malformed /\ file.messages # << >> /\ ~IsDegenerate(file)
FileIdOf(file) == SubSeq(file.name, 1, Len(file.name) - 1)

FilesWhere(Test(_)) ==
    UNION { { << i, j >> : j \in { j \in DOMAIN archive[i].files : Test(archive[i].files[j]) } }
            : i \in ScopeProjects }
MainSessions == FilesWhere(IsMainSession)
FileAt(f) == archive[f[1]].files[f[2]]

HasUsage(m) == m.type = "assistant" /\ m.usage # << >>
InWindow(m) == m.timestamp # NaN /\ m.timestamp >= cutoffDate
RecordsWhere(files, Test(_)) ==
    UNION { { << f[1], f[2], k >> : k \in { k \in DOMAIN FileAt(f).messages :
                                              Test(FileAt(f).messages[k]) } }
            : f \in files }
RecordAt(r) == archive[r[1]].files[r[2]].messages[r[3]]
UsageRecords == RecordsWhere(MainSessions, LAMBDA m : HasUsage(m) /\ InWindow(m))

RECURSIVE SumSet(_, _)
SumSet(F(_), S) ==
    IF S = {} THEN 0
    ELSE LET x == CHOOSE y \in S : TRUE IN F(x) + SumSet(F, S \ { x })
Given(x) == IF x = Undefined THEN 0 ELSE x
RecordTokens(r) ==
    LET u == RecordAt(r).usage[1] IN
    Given(u.input_tokens) + Given(u.cache_creation_input_tokens)
    + Given(u.cache_read_input_tokens) + Given(u.output_tokens)

SessionIdSets(d) ==
    { d.dailyMap.val[i].sessionIds : i \in DOMAIN d.dailyMap.val }
    \cup { d.projectMap.val[i].sessionIds : i \in DOMAIN d.projectMap.val }
    \cup { d.hourlyMap[h].sessionIds : h \in DOMAIN d.hourlyMap }
    \cup { d.weekdayMap[w].sessionIds : w \in DOMAIN d.weekdayMap }

\* ----------------------------------------------------------------- claims
\* C1: a session whose id starts with "agent-" is never counted as a session:
\* no bucket's session-id set holds such an id, the session counter never
\* exceeds the number of session files that are no agent files, and in the
\* session listing such a session is in no project's top-level list, only in
\* the agentSessions list of a parent.
C1_AgentNeverCounted ==
    /\ \A ids \in SessionIdSets(data) : \A id \in ids : id[1] # AgentPrefix
    /\ data.totalSessions
         <= Cardinality(UNION { { << i, j >> : j \in { j \in DOMAIN archive[i].files :
                                     /\ IsSessionFile(archive[i].files[j])
                                     /\ ~IsAgentFile(archive[i].files[j]) } }
                                : i \in DOMAIN archive })
    /\ \A g \in DOMAIN response.projects :
         \A n \in DOMAIN response.projects[g].sessions :
            LET session == response.projects[g].sessions[n] IN
            /\ session.id[1] # AgentPrefix
            /\ ~session.isAgent
            /\ \A a \in DOMAIN session.agentSessions :
                  session.agentSessions[a][1] = AgentPrefix

AgentUsageRecords ==
    RecordsWhere(FilesWhere(LAMBDA file : IsAgentFile(file) /\ ~file.malformed),
                 LAMBDA m : HasUsage(m) /\ InWindow(m))
C1_Witness ==
    /\ StatsReplied
    /\ request.kind = "overall"
    /\ AgentUsageRecords # {}
    /\ Report.overview.sessionCount = 1
    /\ Report.overview.messageCount >= 1

\* C2 (as stated): with a valid Task -> outcome -> agent-id chain and an
\* existing agent file, the usage of the agent file's own records is part of
\* the totals, and the agent session is not counted as a session.
LinkedAgentFiles ==
    UNION { { << f[1], a >> : a \in { a \in DOMAIN archive[f[1]].files :
                LET file == archive[f[1]].files[a] IN
                /\ IsAgentFile(file) /\ ~file.malformed
                /\ MapHas(collectAgentDescriptions(FileAt(f).messages), FileIdOf(file)) } }
            : f \in MainSessions }
LinkedAgentUsage == RecordsWhere(LinkedAgentFiles, LAMBDA m : HasUsage(m) /\ InWindow(m))
ToolNamesIn(files) ==
    { RecordAt(r).content[n].name :
        r \in RecordsWhere(files, LAMBDA m : m.type = "assistant"),
        n \in 1..1 } \ { "" }
C2_Original ==
    (StatsReplied /\ LinkedAgentUsage # {}) =>
        /\ Report.overview.tokenUsage.totalTokens
             = SumSet(RecordTokens, UsageRecords \cup LinkedAgentUsage)
        /\ Report.overview.sessionCount = Cardinality(MainSessions)

\* C2 (amended): with such a chain and agent file, the records of the agent
\* file contribute nothing to the statistics: the token totals and message
\* count are those of the main sessions' records alone, no tool that only the
\* agent file invokes is reported, and the agent session is not counted.
C2_AgentFactsExcluded ==
    (StatsReplied /\ LinkedAgentUsage # {}) =>
        /\ Report.overview.tokenUsage.totalTokens = SumSet(RecordTokens, UsageRecords)
        /\ Report.overview.tokenUsage.inputTokens
             = SumSet(LAMBDA r : Given(RecordAt(r).usage[1].input_tokens), UsageRecords)
        /\ Report.overview.tokenUsage.outputTokens
             = SumSet(LAMBDA r : Given(RecordAt(r).usage[1].output_tokens), UsageRecords)
        /\ \A n \in DOMAIN Report.productivity.toolUsage :
              Report.productivity.toolUsage[n].toolName \in ToolNamesIn(MainSessions)
        /\ Report.overview.sessionCount = Cardinality(MainSessions)
C2_Witness ==
    /\ StatsReplied
    /\ LinkedAgentUsage # {}
    /\ "Read" \in ToolNamesIn(LinkedAgentFiles)
    /\ Report.overview.tokenUsage.totalTokens > 0

\* C3: in the daily, hour-of-day, weekday and project groupings sessionCount
\* is the number of distinct session ids that contribute to the bucket (for a
\* project: of its sessions), however many in-window usage messages a session
\* contributes to it.
IdsOfRecords(records) == { FileIdOf(archive[r[1]].files[r[2]]) : r \in records }
C3_SessionCountIsCardinality ==
    StatsReplied =>
        LET usage == UsageRecords
            sessions == MainSessions IN
        /\ \A n \in DOMAIN Report.daily :
              Report.daily[n].sessionCount =
                 Cardinality(IdsOfRecords({ r \in usage :
                     RecordAt(r).timestamp \div HoursPerDay = Report.daily[n].date }))
        /\ \A n \in DOMAIN Report.trends.byHour :
              Report.trends.byHour[n].sessionCount =
                 Cardinality(IdsOfRecords({ r \in usage :
                     RecordAt(r).timestamp % HoursPerDay = Report.trends.byHour[n].hour }))
        /\ \A n \in DOMAIN Report.trends.byWeekday :
              Report.trends.byWeekday[n].sessionCount =
                 Cardinality(IdsOfRecords({ r \in usage :
                     getDay(RecordAt(r).timestamp) = Report.trends.byWeekday[n].weekday }))
        /\ \A n \in DOMAIN Report.byProject :
              Report.byProject[n].sessionCount =
                 Cardinality({ FileIdOf(FileAt(f)) : f \in { g \in sessions :
                     archive[g[1]].id = Report.byProject[n].id } })
C3_Witness ==
    /\ StatsReplied
    /\ \E r1 \in UsageRecords, r2 \in UsageRecords :
          /\ r1[1] = r2[1] /\ r1[2] = r2[2] /\ r1[3] # r2[3]
          /\ RecordAt(r1).timestamp = RecordAt(r2).timestamp
          /\ \E n \in DOMAIN Report.daily :
                /\ Report.daily[n].date = RecordAt(r1).timestamp \div HoursPerDay
                /\ Report.daily[n].sessionCount = 1
          /\ Report.trends.byHour[(RecordAt(r1).timestamp % HoursPerDay) + 1].sessionCount = 1
          /\ Report.trends.byHour[(RecordAt(r1).timestamp % HoursPerDay) + 1].messageCount >= 2

\* C4: the cutoff is tested per record and is inclusive: the usage messages
\* of a report are exactly the usage records of the included sessions whose
\* timestamp is >= the cutoff, in the totals and in every daily entry.
C4_CutoffInclusivePerRecord ==
    StatsReplied =>
        LET usage == UsageRecords IN
        /\ Report.overview.messageCount = Cardinality(usage)
        /\ Report.overview.tokenUsage.totalTokens = SumSet(RecordTokens, usage)
        /\ \A n \in DOMAIN Report.daily :
              Report.daily[n].tokenUsage.totalTokens =
                 SumSet(RecordTokens, { r \in usage :
                     RecordAt(r).timestamp \div HoursPerDay = Report.daily[n].date })
C4_Witness ==
    /\ StatsReplied
    /\ NumericWindow
    /\ request.kind = "overall"
    /\ cutoffDate = TAt
    /\ archive[1].files = << File(S1, 10, FALSE, << UsageAt(TBefore), UsageAt(TAt) >>) >>
    /\ archive[3].files = << >>
    /\ Report.overview.messageCount = 1
    /\ Report.daily[1].date = TAt \div HoursPerDay
    /\ Report.daily[1].tokenUsage.totalTokens = 10

\* C5 (as stated): a main session all of whose records predate the cutoff is
\* counted nowhere: not in the overall session count, not in its project's
\* sessionCount, not in the sessions-with-agents counter.
SessionsInWindow ==
    { f \in MainSessions : \E k \in DOMAIN FileAt(f).messages : InWindow(FileAt(f).messages[k]) }
HasTaskLink(f) == MapSize(collectAgentDescriptions(FileAt(f).messages)) > 0
C5_Original ==
    StatsReplied =>
        /\ Report.overview.sessionCount = Cardinality(SessionsInWindow)
        /\ Report.productivity.agentSessions
             = Cardinality({ f \in SessionsInWindow : HasTaskLink(f) })
        /\ request.kind = "overall" =>
              \A n \in DOMAIN Report.byProject :
                 Report.byProject[n].sessionCount =
                    Cardinality({ f \in SessionsInWindow :
                                    archive[f[1]].id = Report.byProject[n].id })

\* C5 (amended): such a session contributes no usage, message, model or tool
\* counts and enters no daily, hour-of-day or weekday session set, but it is
\* still counted in the overall session count, in its project's sessionCount
\* and, when its records hold a Task link, in the sessions-with-agents counter.
C5_OutOfWindowSessionStillCounted ==
    StatsReplied =>
        /\ Report.overview.sessionCount = Cardinality(MainSessions)
        /\ Report.productivity.agentSessions
             = Cardinality({ f \in MainSessions : HasTaskLink(f) })
        /\ request.kind = "overall" =>
              \A n \in DOMAIN Report.byProject :
                 Report.byProject[n].sessionCount =
                    Cardinality({ f \in MainSessions :
                                    archive[f[1]].id = Report.byProject[n].id })
        /\ SessionsInWindow = {} =>
              /\ Report.overview.messageCount = 0
              /\ Report.overview.tokenUsage = createEmptyTokenUsage
              /\ Report.byModel = << >>
              /\ Report.productivity.toolUsage = << >>
              /\ \A n \in DOMAIN Report.daily : Report.daily[n].sessionCount = 0
              /\ \A n \in DOMAIN Report.trends.byHour :
                    Report.trends.byHour[n].sessionCount = 0
              /\ \A n \in DOMAIN Report.trends.byWeekday :
                    Report.trends.byWeekday[n].sessionCount = 0
C5_Witness ==
    /\ StatsReplied
    /\ NumericWindow
    /\ request.kind = "overall"
    /\ MainSessions # {}
    /\ SessionsInWindow = {}
    /\ Report.overview.sessionCount = 1
    /\ Report.productivity.agentSessions = 1
    /\ Report.byProject[1].sessionCount = 1
    /\ Report.overview.messageCount = 0

\* C6: a session file that fails to parse contributes nothing and does not
\* abort the request: the reply is a report over the remaining files.
StatsDone ==
    pc = "done" /\ request.kind \in { "overall", "project" } /\ response.code # 404
MalformedInScope ==
    FilesWhere(LAMBDA file : IsSessionFile(file) /\ ~IsAgentFile(file) /\ file.malformed) # {}
BadTimestampInScope ==
    RecordsWhere(MainSessions, LAMBDA m : HasUsage(m) /\ m.timestamp = NaN) # {}
C6_MalformedFileSkipped ==
    (StatsDone /\ MalformedInScope /\ ~BadTimestampInScope) =>
        /\ response.code = 200
        /\ Report.overview.messageCount = Cardinality(UsageRecords)

\* C7: no record that is valid JSON aborts the computation: with every file
\* of the scope parsing, the reply is a report, also when a usage record has
\* no parseable timestamp or lacks numeric fields.
C7_BadRecordTolerated ==
    (StatsDone /\ ~MalformedInScope) => response.code = 200

\* C8: for a window selector of N days the daily list has exactly N entries.
C8_DailyHasNEntries ==
    (StatsReplied /\ NumericWindow) => Len(Report.daily) = request.days.n

\* C9: the daily list holds every calendar day from the effective window
\* start (the cutoff, or the earliest counted message when the window is
\* "all") through today, or through the latest counted message if that is
\* later, once each and in ascending order.
MinOf(S) == CHOOSE x \in S : \A y \in S : x <= y
MaxOf(S) == CHOOSE x \in S : \A y \in S : x >= y
CountedDays == { RecordAt(r).timestamp \div HoursPerDay : r \in UsageRecords }
FirstDay ==
    IF request.days.all /\ CountedDays # {} THEN MinOf(CountedDays)
    ELSE cutoffDate \div HoursPerDay
LastDay == MaxOf(CountedDays \cup { now \div HoursPerDay })
C9_DailyCoversWindow ==
    StatsReplied =>
        /\ Len(Report.daily) = LastDay - FirstDay + 1
        /\ \A n \in DOMAIN Report.daily : Report.daily[n].date = FirstDay + n - 1

\* C10: for every tool of a report successfulUses <= totalUses, so that
\* 0 <= successRate <= 100, also when the outcome of one invocation occurs
\* more than once in a session.
C10_SuccessNeverExceedsTotal ==
    StatsReplied =>
        \A n \in DOMAIN Report.productivity.toolUsage :
           LET tool == Report.productivity.toolUsage[n] IN
           /\ tool.successfulUses <= tool.totalUses
           /\ 0 <= tool.successRate.num
           /\ tool.successRate.num <= 100 * tool.successRate.den

\* C11: the byProject list of a per-project report holds exactly one entry,
\* the requested project, for every project directory and window selector,
\* also for a project without sessions or without usage in the window.
C11_ByProjectHasRequestedProject ==
    (StatsReplied /\ request.kind = "project") =>
        /\ Len(Report.byProject) = 1
        /\ Report.byProject[1].id = request.projectId

\* C12: the cost breakdown of a report prices the tokens of each message
\* with the price table of the message's own model, the default model's
\* prices serving only for a model that the table lacks.
ModelOf(r) == extractTokenUsage(RecordAt(r))[1].model
InPricingTable(model) == model \in Range(PRICING.keys)
OwnPrices(r) ==
    IF InPricingTable(ModelOf(r)) THEN MapGet(PRICING, ModelOf(r))
    ELSE MapGet(PRICING, DEFAULT_PRICING_MODEL)
RecordCost(r) == calculateCost(extractTokenUsage(RecordAt(r))[1].usage, OwnPrices(r)).totalCost
C12_CostUsesModelPrices ==
    StatsReplied => Report.cost.totalCost = SumSet(RecordCost, UsageRecords)

\* C13: a usage message whose model the pricing table lacks causes no error:
\* the request is answered with a report, the message is counted under its
\* model like any other, and its cost, in the per-message costs and in the
\* cost breakdown, is that of the default model's prices, which is above zero
\* when the message has tokens.
UnknownModelRecords == { r \in UsageRecords : ~InPricingTable(ModelOf(r)) }
DefaultCost(r) ==
    calculateCost(extractTokenUsage(RecordAt(r))[1].usage,
                  MapGet(PRICING, DEFAULT_PRICING_MODEL)).totalCost
C13_UnknownModelPricedAtDefault ==
    /\ (StatsDone /\ ~MalformedInScope /\ ~BadTimestampInScope) => response.code = 200
    /\ StatsReplied =>
          /\ \A r \in UnknownModelRecords :
                /\ \E n \in DOMAIN Report.byModel :
                      /\ Report.byModel[n].model = ModelOf(r)
                      /\ Report.byModel[n].messageCount
                           = Cardinality({ q \in UsageRecords : ModelOf(q) = ModelOf(r) })
                /\ RecordTokens(r) > 0 => DefaultCost(r) > 0
          /\ SumSeq(data.allCosts) = SumSet(RecordCost, UsageRecords)
          /\ Report.cost.totalCost >= SumSet(DefaultCost, UnknownModelRecords)
          /\ Report.overview.messageCount = Cardinality(UsageRecords)
C13_Witness ==
    /\ StatsReplied
    /\ \E r \in UnknownModelRecords : RecordTokens(r) > 0
    /\ \E r \in UsageRecords : InPricingTable(ModelOf(r))
    /\ \E n \in DOMAIN Report.byModel : Report.byModel[n].model = "unknown"
    /\ Report.cost.totalCost > 0

\* C14: a session file whose record list is exactly one record of kind
\* assistant contributes to no count: the session counts, the
\* sessions-with-agents counter, the token sums, the message counts and the
\* tool counters of a report are those of the other sessions alone, for
\* every window selector.
DegenerateSessions ==
    FilesWhere(LAMBDA file : /\ IsSessionFile(file) /\ ~IsAgentFile(file)
                             /\ ~file.malformed /\ IsDegenerate(file))
OtherSessions ==
    FilesWhere(LAMBDA file : /\ IsSessionFile(file) /\ ~IsAgentFile(file)
                             /\ ~file.malformed /\ file.messages # << >>
                             /\ ~(Len(file.messages) = 1 /\ file.messages[1].type = "assistant"))
OtherUsage == RecordsWhere(OtherSessions, LAMBDA m : HasUsage(m) /\ InWindow(m))
ToolUsesOf(r) ==
    Cardinality({ n \in DOMAIN RecordAt(r).content :
                    /\ RecordAt(r).content[n].type = "tool_use"
                    /\ RecordAt(r).content[n].id # ""
                    /\ RecordAt(r).content[n].name # "" })
C14_DegenerateSessionCountsNowhere ==
    (StatsReplied /\ DegenerateSessions # {}) =>
        /\ Report.overview.sessionCount = Cardinality(OtherSessions)
        /\ Report.productivity.totalSessions = Cardinality(OtherSessions)
        /\ Report.productivity.agentSessions
             = Cardinality({ f \in OtherSessions : HasTaskLink(f) })
        /\ Report.overview.messageCount = Cardinality(OtherUsage)
        /\ Report.overview.tokenUsage.totalTokens = SumSet(RecordTokens, OtherUsage)
        /\ Report.productivity.totalToolCalls = SumSet(ToolUsesOf, OtherUsage)
        /\ \A n \in DOMAIN Report.daily :
              Report.daily[n].sessionCount
                 <= Cardinality(IdsOfRecords(OtherUsage))
        /\ \A f \in DegenerateSessions :
              FileIdOf(FileAt(f)) \in UNION SessionIdSets(data)
                 => FileIdOf(FileAt(f)) \in { FileIdOf(FileAt(g)) : g \in OtherSessions }
C14_Witness ==
    /\ StatsReplied
    /\ \E f \in DegenerateSessions :
          /\ HasUsage(FileAt(f).messages[1])
          /\ InWindow(FileAt(f).messages[1])
          /\ FileAt(f).messages[1].content[1].type = "tool_use"
    /\ Report.overview.sessionCount = 0
    /\ Report.overview.messageCount = 0
    /\ Report.productivity.totalToolCalls = 0

\* ------------------------------------------------ the session listing alone
\* Archives for GET /api/sessions: one main session whose records declare
\* Task invocations and outcomes, beside agent files that are absent, load as
\* a session, or do not (malformed, a single assistant record, zero bytes)
AgentA2 == << AgentPrefix, "a2", Jsonl >>
LinkRecords ==
    { Message("assistant", TMid, FullUsage, Sonnet, << ToolUse("t1", "Task", "explore") >>, ""),
      Message("assistant", TMid, FullUsage, Sonnet, << ToolUse("t1", "Task", "") >>, ""),
      Message("assistant", TMid, FullUsage, Sonnet, << ToolUse("t1", "Bash", "explore") >>, ""),
      Message("user", TMid, << >>, "", << ToolResult("t1", FALSE) >>, "a1"),
      Message("user", TMid, << >>, "", << ToolResult("t1", FALSE) >>, "a2"),
      Message("user", TMid, << >>, "", << ToolResult("t1", FALSE) >>, ""),
      Message("user", TMid, << >>, "", << ToolResult("t9", FALSE) >>, "a1") }
AgentFileSets ==
    { << >>,
      << File(AgentA1, 40, FALSE, << UserText, UsageAt(TMid) >>) >>,
      << File(AgentA2, 50, FALSE, << UserText >>) >>,
      << File(AgentA2, 50, FALSE, << UserText >>),
         File(AgentA1, 40, FALSE, << UserText, UsageAt(TMid) >>) >>,
      << File(AgentA1, 40, TRUE, << UserText >>) >>,
      << File(AgentA1, 40, FALSE, << UsageAt(TMid) >>) >>,
      << File(AgentA1, 40, FALSE, << >>) >> }
\* A second main session that holds the same invocation and outcome under
\* another description, as a resumed session repeats its history
ResumedSessions ==
    { << >>,
      << File(S2, 30, FALSE,
              << Message("assistant", TMid, FullUsage, Sonnet,
                         << ToolUse("t1", "Task", "review") >>, ""),
                 Message("user", TMid, << >>, "", << ToolResult("t1", FALSE) >>, "a1") >>) >> }
ListingArchives ==
    { Archive(agents \o << File(S1, 10, FALSE, messages) >> \o resumed, << >>) :
        messages \in SeqsUpTo(LinkRecords, MaxLinkRecords), agents \in AgentFileSets,
        resumed \in ResumedSessions }

InitListing ==
    /\ archive \in ListingArchives
    /\ now = Now
    /\ pc = "idle"
    /\ request = NoRequest
    /\ cutoffDate = 0
    /\ data = createEmptyAggregatedData
    /\ pi = 0
    /\ fi = 0
    /\ response = NoResponse
NextListing == ListSessions
SpecListing == InitListing /\ [][NextListing]_vars

\* What the archive says about the links of a listed session
Listed == pc = "done" /\ request.kind = "sessions"
GroupIndex(g) == ProjectIndex(response.projects[g].name)
FileOfSession(g, session) ==
    LET files == archive[GroupIndex(g)].files IN
    files[CHOOSE j \in DOMAIN files :
            IsSessionFile(files[j]) /\ FileIdOf(files[j]) = session.id]
ToolIds == { "t1", "t2", "t3", "t5", "t9" }
TaskIds(messages) ==
    { id \in ToolIds :
        \E k \in DOMAIN messages : \E n \in DOMAIN messages[k].content :
           /\ messages[k].type = "assistant"
           /\ messages[k].content[n].type = "tool_use"
           /\ messages[k].content[n].name = "Task"
           /\ messages[k].content[n].description # ""
           /\ messages[k].content[n].id = id }
\* the records that carry an agent id and hold an outcome of invocation id
OutcomesOf(messages, id) ==
    { k \in DOMAIN messages :
        /\ messages[k].agentId # ""
        /\ \E n \in DOMAIN messages[k].content :
              /\ messages[k].content[n].type = "tool_result"
              /\ messages[k].content[n].tool_use_id = id }
AgentsOfAnyOutcome(messages) ==
    { << AgentPrefix, messages[k].agentId >> :
        k \in UNION { OutcomesOf(messages, id) : id \in TaskIds(messages) } }
LastOutcome(messages, id) ==
    CHOOSE k \in OutcomesOf(messages, id) : \A q \in OutcomesOf(messages, id) : k >= q
AgentsOfLastOutcome(messages) ==
    { << AgentPrefix, messages[LastOutcome(messages, id)].agentId >> :
        id \in { id \in TaskIds(messages) : OutcomesOf(messages, id) # {} } }
AgentFilesPresent(g) ==
    { FileIdOf(file) : file \in { f \in Range(archive[GroupIndex(g)].files) : IsAgentFile(f) } }
AgentFilesLoaded(g) ==
    { FileIdOf(file) : file \in { f \in Range(archive[GroupIndex(g)].files) :
          /\ IsAgentFile(f) /\ ~f.malformed /\ f.messages # << >> /\ ~IsDegenerate(f) } }

\* C15 (as stated): a listed main session links exactly the agent sessions
\* agent-{id} for which it holds a Task invocation with a description, an
\* outcome of that invocation in some record that carries the agent id, and
\* for which a file agent-{id}.jsonl exists in the project.
C15_Original ==
    Listed =>
        \A g \in DOMAIN response.projects :
           \A n \in DOMAIN response.projects[g].sessions :
              LET session == response.projects[g].sessions[n] IN
              Range(session.agentSessions)
                 = AgentsOfAnyOutcome(FileOfSession(g, session).messages)
                      \cap AgentFilesPresent(g)

\* C15 (amended): the link is to the agent id of the last record that holds
\* an outcome of the invocation, and the agent file must load as a session:
\* it is not empty, it parses, and it is not a single assistant record.  A
\* missing or unloadable agent file removes the link and the listing is
\* still returned.
C15_LinksLoadedAgentOfLastOutcome ==
    Listed =>
        /\ response.code = 200
        /\ \A g \in DOMAIN response.projects :
              \A n \in DOMAIN response.projects[g].sessions :
                 LET session == response.projects[g].sessions[n] IN
                 Range(session.agentSessions)
                    = AgentsOfLastOutcome(FileOfSession(g, session).messages)
                         \cap AgentFilesLoaded(g)
C15_Witness ==
    /\ Listed
    /\ Len(response.projects) = 1
    /\ Len(response.projects[1].sessions) = 1
    /\ response.projects[1].sessions[1].agentSessions = << << AgentPrefix, "a2" >> >>
    /\ << AgentPrefix, "a1" >> \in AgentFilesLoaded(1)
    /\ << AgentPrefix, "a1" >>
          \in AgentsOfAnyOutcome(FileOfSession(1, response.projects[1].sessions[1]).messages)

\* ------------------------------------------- sessions that spawn two agents
\* Archives whose main session can hold two Task invocations, resolved to two
\* agent ids, in one assistant record; beside it a plain or a malformed
\* second session, and the file of the first agent present or not
TwoTasks ==
    Message("assistant", TMid, FullUsage, Sonnet,
            << ToolUse("t1", "Task", "explore"), ToolUse("t3", "Task", "review") >>, "")
AgentRecords ==
    { TwoTasks,
      Message("assistant", TMid, FullUsage, Sonnet, << ToolUse("t1", "Task", "explore") >>, ""),
      Message("user", TMid, << >>, "", << ToolResult("t1", FALSE) >>, "a1"),
      Message("user", TMid, << >>, "", << ToolResult("t3", FALSE) >>, "a2"),
      UserText }
AgentArchives ==
    { Archive(agent \o << File(S1, 10, FALSE, messages) >> \o second, << >>) :
        messages \in SeqsUpTo(AgentRecords, MaxAgentRecords),
        agent \in { << >>, << File(AgentA1, 40, FALSE, << UserText, UsageAt(TMid) >>) >> },
        second \in { << >>,
                     << File(S2, 30, FALSE, << UserText, UsageAt(TMid) >>) >>,
                     << File(S2, 30, TRUE, << UsageAt(TMid) >>) >> } }
InitAgents ==
    /\ archive \in AgentArchives
    /\ now = Now
    /\ pc = "idle"
    /\ request = NoRequest
    /\ cutoffDate = 0
    /\ data = createEmptyAggregatedData
    /\ pi = 0
    /\ fi = 0
    /\ response = NoResponse
SpecAgents == InitAgents /\ [][Next]_vars

\* C16: the sessions-with-agents counter counts each included main session
\* whose records hold at least one Task -> outcome -> agent-id chain once,
\* however many chains it holds, and no session without one; so it never
\* exceeds the session count, and agentUsageRate lies in 0..100 and is 0 for
\* a report without sessions.
ChainsOf(f) == AgentsOfLastOutcome(FileAt(f).messages)
aggregateFile(acc, kind, projectId, file, cutoff) ==
    IF acc.threw \/ SkippedBeforeParse(file) THEN acc
    ELSE IF ParseFails(file) THEN [acc EXCEPT !.threw = TRUE]
    ELSE IF shouldSkipSession(file.messages) THEN acc
    ELSE LET st == FoldMessages(CountSession(acc.data, kind, projectId,
                                             SessionIdOf(file), file.messages),
                                file.messages, cutoff, SessionIdOf(file), projectId)
         IN [data |-> st.data, threw |-> st.threw]
aggregateProject(project, cutoff) ==
    FoldLeft(LAMBDA acc, file : aggregateFile(acc, "project", project.id, file, cutoff),
             [data |-> createEmptyAggregatedData, threw |-> FALSE], project.files)
aggregateAllProjects(projects, cutoff) ==
    FoldLeft(LAMBDA acc, project :
                IF acc.threw \/ ~project.isDirectory THEN acc
                ELSE FoldLeft(LAMBDA a, file :
                                 aggregateFile(a, "overall", project.id, file, cutoff),
                              [acc EXCEPT !.data.projectMap =
                                  IF MapHas(@, project.id) THEN @
                                  ELSE MapSet(@, project.id,
                                              [tokenUsage |-> createEmptyTokenUsage,
                                               sessionIds |-> {},
                                               name |-> getProjectName(project.id)])],
                              project.files),
             [data |-> createEmptyAggregatedData, threw |-> FALSE], projects)

\* Archives for the order of processing: up to MaxOrderFiles files in the
\* first project, among them two sessions that tie on calls per tool, a
\* malformed one and an agent file; the other project is empty or holds a
\* session with as many tokens as the first session
S3 == << "s3", Jsonl >>
OrderFiles ==
    { File(S1, 10, FALSE,
           << UserText,
              Message("assistant", TMid, FullUsage, Sonnet, << ToolUse("t5", "Read", "") >>, "") >>),
      File(S2, 30, FALSE,
           << UserText,
              Message("assistant", TAt, << UsageBlock(1, 0, 0, 2) >>, Opus,
                      << ToolUse("t2", "Bash", "") >>, "") >>),
      File(S3, 20, TRUE, << UserText >>),
      File(AgentA1, 40, FALSE, << UserText, UsageAt(TMid) >>) }
OrderArchives ==
    { Archive(files, other) :
        files \in { s \in SeqsUpTo(OrderFiles, MaxOrderFiles) :
                      \A i, j \in DOMAIN s : s[i] = s[j] => i = j },
        other \in OtherProjectFiles }
InitOrder ==
    /\ archive \in OrderArchives
    /\ now = Now
    /\ pc = "idle"
    /\ request = NoRequest
    /\ cutoffDate = 0
    /\ data = createEmptyAggregatedData
    /\ pi = 0
    /\ fi = 0
    /\ response = NoResponse
SpecOrder == InitOrder /\ [][Next]_vars

\* The orders in which the entries of a directory may be read
Orders(n) == { p \in [1..n -> 1..n] : \A i, j \in 1..n : p[i] = p[j] => i = j }
Reorder(s, p) == [i \in DOMAIN s |-> s[p[i]]]
MaxFiles == MaxOf({ Len(archive[i].files) : i \in DOMAIN archive })
ReorderFiles(project, q) ==
    [project EXCEPT !.files =
        IF Len(@) = MaxFiles THEN Reorder(@, q) ELSE @]
\* The reply of the statistics routes to request req over the project
\* entries in the given order
ReplyOver(req, projects) ==
    LET cutoff == calculateCutoffDate(req.days, now) IN
    IF req.kind = "overall"
    THEN LET alt == aggregateAllProjects(projects, cutoff)
         IN IF alt.threw THEN [NoResponse EXCEPT !.code = 500]
            ELSE [NoResponse EXCEPT
                    !.code = 200,
                    !.report = << getOverallStatistics(req.days, cutoff, now, alt.data) >>]
    ELSE IF ~\E i \in DOMAIN projects :
                projects[i].id = req.projectId /\ projects[i].isDirectory
    THEN [NoResponse EXCEPT !.code = 404]
    ELSE LET project == projects[CHOOSE i \in DOMAIN projects :
                                    projects[i].id = req.projectId]
             alt == aggregateProject(project, cutoff)
         IN IF alt.threw THEN [NoResponse EXCEPT !.code = 500]
            ELSE [NoResponse EXCEPT
                    !.code = 200,
                    !.report = << getProjectStatistics(req.projectId, req.days,
                                                       cutoff, now, alt.data) >>]
\* The request of the state, served over the archive read in another order:
\* p orders the project entries, q the files of the fullest directories
ReplyInOrder(p, q) ==
    ReplyOver(request, Reorder([i \in DOMAIN archive |-> ReorderFiles(archive[i], q)], p))
\* A reply with its sorted lists taken as sets of entries
UpToTies(reply) ==
    IF reply.code # 200 THEN reply
    ELSE [reply EXCEPT
            !.report = << [@[1] EXCEPT
                             !.byProject = << Range(@) >>,
                             !.byModel = << Range(@) >>,
                             !.productivity.toolUsage = << Range(@) >>] >>]

\* C17 (as stated): every order of the project directories and of the
\* session files yields the same reply, the assembled lists included.
C17_Original ==
    StatsDone =>
        \A p \in Orders(Len(archive)), q \in Orders(MaxFiles) :
           ReplyInOrder(p, q) = response

\* C17 (amended): every order yields the same bucket sums, session counts
\* and counters and the same entries in every list; only the order of list
\* entries that tie on the sort key follows the order of processing.  In the
\* order of the directory listing the reply is the one that was sent.
C17_SameReportUpToTies ==
    StatsDone =>
        /\ \A p \in Orders(Len(archive)), q \in Orders(MaxFiles) :
              UpToTies(ReplyInOrder(p, q)) = UpToTies(response)
        /\ ReplyInOrder([i \in DOMAIN archive |-> i], [j \in 1..MaxFiles |-> j]) = response
C17_Witness ==
    /\ StatsReplied
    /\ request.kind = "overall"
    /\ Len(Report.byProject) = 2
    /\ Report.byProject[1].tokenUsage.totalTokens = Report.byProject[2].tokenUsage.totalTokens
    /\ Report.byProject[1].tokenUsage.totalTokens > 0
    /\ MaxFiles >= 2
    /\ \E p \in Orders(Len(archive)) :
          ReplyInOrder(p, [j \in 1..MaxFiles |-> j]) # response

\* ------------------------------------------------ two requests at a time
\* The server with two statistics requests in flight.  Each variable of the
\* handler holds one value per request; a step of a request is the code
\* between two of its file-system awaits.  Every call of aggregateProject /
\* aggregateAllProjects makes its own AggregatedData.
Requests == { "first", "second" }

\* Variant for comparison: one accumulator of the module for all requests
DataOf_Shared(r) == "first"

\* const data = createEmptyAggregatedData(): the accumulator of request r
DataOf(r) == r

ConcurrentArchives ==
    { Archive(files, other) :
        files \in { s \in SeqsUpTo(OrderFiles, MaxConcurrentFiles) :
                      \A i, j \in DOMAIN s : s[i] = s[j] => i = j },
        other \in OtherProjectFiles }
ConcurrentRequests ==
    { [kind |-> "overall", days |-> [all |-> FALSE, n |-> WindowDays], projectId |-> << >>],
      [kind |-> "overall", days |-> [all |-> TRUE, n |-> 0], projectId |-> << >>],
      [kind |-> "project", days |-> [all |-> FALSE, n |-> WindowDays], projectId |-> ProjectA],
      [kind |-> "project", days |-> [all |-> TRUE, n |-> 0], projectId |-> MissingProject] }

InitConcurrent ==
    /\ archive \in ConcurrentArchives
    /\ now = Now
    /\ pc = [r \in Requests |-> "idle"]
    /\ request = [r \in Requests |-> NoRequest]
    /\ cutoffDate = [r \in Requests |-> 0]
    /\ data = [r \in Requests |-> createEmptyAggregatedData]
    /\ pi = [r \in Requests |-> 0]
    /\ fi = [r \in Requests |-> 0]
    /\ response = [r \in Requests |-> NoResponse]

\* The route up to its first await: 404 for a missing directory, else the
\* cutoff and a fresh accumulator
StartRequest(r, req) ==
    /\ pc[r] = "idle"
    /\ request' = [request EXCEPT ![r] = req]
    /\ IF req.kind = "project" /\ ~IsProjectDirectory(req.projectId)
       THEN /\ response' = [response EXCEPT ![r] = [NoResponse EXCEPT !.code = 404]]
            /\ pc' = [pc EXCEPT ![r] = "done"]
            /\ UNCHANGED << cutoffDate, data, pi, fi >>
       ELSE /\ cutoffDate' = [cutoffDate EXCEPT ![r] = calculateCutoffDate(req.days, now)]
            /\ data' = [data EXCEPT ![DataOf(r)] = createEmptyAggregatedData]
            /\ pi' = [pi EXCEPT ![r] = IF req.kind = "overall" THEN 1
                                       ELSE ProjectIndex(req.projectId)]
            /\ fi' = [fi EXCEPT ![r] = IF req.kind = "overall" THEN 0 ELSE 1]
            /\ pc' = [pc EXCEPT ![r] = IF req.kind = "overall" THEN "projects" ELSE "files"]
            /\ UNCHANGED response
    /\ UNCHANGED << archive, now >>

\* aggregateAllProjects between two project entries, and the reply after the last
ProjectStep(r) ==
    /\ pc[r] = "projects"
    /\ IF pi[r] > Len(archive)
       THEN /\ response' = [response EXCEPT ![r] =
                              [NoResponse EXCEPT
                                 !.code = 200,
                                 !.report = << getOverallStatistics(request[r].days,
                                                  cutoffDate[r], now, data[DataOf(r)]) >>]]
            /\ pc' = [pc EXCEPT ![r] = "done"]
            /\ UNCHANGED << data, pi, fi >>
       ELSE IF ~archive[pi[r]].isDirectory
       THEN /\ pi' = [pi EXCEPT ![r] = @ + 1]
            /\ UNCHANGED << pc, data, fi, response >>
       ELSE /\ data' = [data EXCEPT ![DataOf(r)].projectMap =
                           IF MapHas(@, archive[pi[r]].id) THEN @
                           ELSE MapSet(@, archive[pi[r]].id,
                                       [tokenUsage |-> createEmptyTokenUsage,
                                        sessionIds |-> {},
                                        name |-> getProjectName(archive[pi[r]].id)])]
            /\ fi' = [fi EXCEPT ![r] = 1]
            /\ pc' = [pc EXCEPT ![r] = "files"]
            /\ UNCHANGED << pi, response >>
    /\ UNCHANGED << archive, now, request, cutoffDate >>

\* One file of the directory: stat, parseJsonl and the synchronous fold of
\* its records; after the last file the next project or the reply
FileStep(r) ==
    /\ pc[r] = "files"
    /\ IF fi[r] > Len(archive[pi[r]].files)
       THEN IF request[r].kind = "overall"
            THEN /\ pi' = [pi EXCEPT ![r] = @ + 1]
                 /\ pc' = [pc EXCEPT ![r] = "projects"]
                 /\ UNCHANGED << data, fi, response >>
            ELSE /\ response' = [response EXCEPT ![r] =
                                   [NoResponse EXCEPT
                                      !.code = 200,
                                      !.report = << getProjectStatistics(request[r].projectId,
                                                       request[r].days, cutoffDate[r], now,
                                                       data[DataOf(r)]) >>]]
                 /\ pc' = [pc EXCEPT ![r] = "done"]
                 /\ UNCHANGED << data, pi, fi >>
       ELSE LET folded == aggregateFile([data |-> data[DataOf(r)], threw |-> FALSE],
                                        request[r].kind, archive[pi[r]].id,
                                        archive[pi[r]].files[fi[r]], cutoffDate[r])
            IN IF folded.threw
               THEN /\ response' = [response EXCEPT ![r] = [NoResponse EXCEPT !.code = 500]]
                    /\ pc' = [pc EXCEPT ![r] = "done"]
                    /\ UNCHANGED << data, pi, fi >>
               ELSE /\ data' = [data EXCEPT ![DataOf(r)] = folded.data]
                    /\ fi' = [fi EXCEPT ![r] = @ + 1]
                    /\ UNCHANGED << pc, pi, response >>
    /\ UNCHANGED << archive, now, request, cutoffDate >>

NextConcurrent ==
    \/ \E r \in Requests, req \in ConcurrentRequests : StartRequest(r, req)
    \/ \E r \in Requests : ProjectStep(r)
    \/ \E r \in Requests : FileStep(r)
SpecConcurrent == InitConcurrent /\ [][NextConcurrent]_vars

\* C18: of two statistics requests that run interleaved at their awaits,
\* each gets the reply it would get alone over the same archive, and the
\* accumulator of a request is touched by that request only.
C18_ConcurrentRequestsIsolated ==
    /\ \A r \in Requests : pc[r] = "done" => response[r] = ReplyOver(request[r], archive)
    /\ \A r \in Requests : pc[r] = "idle" => data[r] = createEmptyAggregatedData
C18_Witness ==
    /\ pc["first"] = "done"
    /\ request["first"].kind = "overall"
    /\ response["first"].code = 200
    /\ response["first"].report[1].overview.messageCount = 3
    /\ pc["second"] = "files"
    /\ request["second"].kind = "project"
    /\ fi["second"] = 2
    /\ data["second"].totalMessages = 1


\* ------------------------------------------------------- cache hit rate
RecordCacheRead(r) == Given(RecordAt(r).usage[1].cache_read_input_tokens)
RecordCacheCreation(r) == Given(RecordAt(r).usage[1].cache_creation_input_tokens)
CacheRead == SumSet(RecordCacheRead, UsageRecords)
CacheCreation == SumSet(RecordCacheCreation, UsageRecords)

DeclaredIds(messages) ==
    { id \in ToolIds :
        \E k \in DOMAIN messages : \E i \in DOMAIN messages[k].content :
            /\ messages[k].content[i].type = "tool_use"
            /\ messages[k].content[i].id = id }
IsOrphanOutcome(messages, item) ==
    item.type = "tool_result" /\ item.tool_use_id \notin DeclaredIds(messages)
WithoutOrphans(messages) ==
    [k \in DOMAIN messages |->
        [messages[k] EXCEPT !.content =
            SelectSeq(@, LAMBDA item : ~IsOrphanOutcome(messages, item))]]
\* The archive with every outcome of an undeclared invocation taken out
ArchiveWithoutOrphans ==
    [p \in DOMAIN archive |->
        [archive[p] EXCEPT !.files =
            [j \in DOMAIN @ |-> [@[j] EXCEPT !.messages = WithoutOrphans(@)]]]]
OrphanCounted(f) ==
    \E k \in DOMAIN FileAt(f).messages :
        /\ InWindow(FileAt(f).messages[k])
        /\ \E i \in DOMAIN FileAt(f).messages[k].content :
              IsOrphanOutcome(FileAt(f).messages, FileAt(f).messages[k].content[i])

\* C20: an outcome whose invocation id no tool invocation of its session
\* declares changes no tool's total or successful counter and raises no
\* error: the reply is the reply over the archive without such outcomes.
C20_OrphanOutcomeDropped ==
    pc = "done" /\ request.kind \in { "overall", "project" } /\ response.code # 404
        => response = ReplyOver(request, ArchiveWithoutOrphans)
C20_Witness ==
    /\ StatsReplied
    /\ \E f \in MainSessions :
          /\ request.kind = "project" => archive[f[1]].id = request.projectId
          /\ OrphanCounted(f)
          /\ \E k \in DOMAIN FileAt(f).messages :
                /\ InWindow(FileAt(f).messages[k])
                /\ HasUsage(FileAt(f).messages[k])
                /\ \E i \in DOMAIN FileAt(f).messages[k].content :
                      FileAt(f).messages[k].content[i].type = "tool_use"
    /\ Len(Report.productivity.toolUsage) > 0
    /\ \A i \in DOMAIN Report.productivity.toolUsage : Report.productivity.toolUsage[i].successfulUses = 0


\* ------------------------------------------- archives of mixed usage
\* Archives whose first session mixes records without cache fields and
\* without a model, records of priced models in and before the window, a
\* tool invocation and
\* outcomes with and without an invocation, next to an agent file, a
\* one-record session, a malformed file or an empty one.
UsageMixRecords ==
    { Message("assistant", TMid, PartialUsage, "", << >>, ""),
      UsageAt(TMid),
      UsageAt(TBefore),
      Message("assistant", TMid, FullUsage, Opus, << ToolUse("t1", "Task", "explore") >>, ""),
      Message("user", TMid, << >>, "", << ToolResult("t1", FALSE) >>, "a1"),
      Message("user", TMid, << >>, "", << ToolResult("t9", FALSE) >>, "") }
UsageMixNeighbours ==
    { [agent |-> << >>, second |-> << >>],
      [agent |-> << File(AgentA1, 40, FALSE, << UserText, UsageAt(TMid) >>) >>,
       second |-> << File(S2, 30, FALSE, << UsageAt(TMid) >>) >>],
      [agent |-> << >>, second |-> << File(S2, 30, TRUE, << UsageAt(TMid) >>) >>],
      [agent |-> << >>,
       second |-> << File(S2, 30, FALSE, << >>), File(<< "memo.txt" >>, 5, FALSE, << UserText >>) >>] }
UsageMixArchives ==
    { Archive(n.agent \o << File(S1, 10, FALSE, messages) >> \o n.second, other) :
        messages \in SeqsUpTo(UsageMixRecords, MaxUsageMixRecords),
        n \in UsageMixNeighbours, other \in OtherProjectFiles }
    \cup { << >> }
InitUsageMix ==
    /\ archive \in UsageMixArchives
    /\ now = Now
    /\ pc = "idle"
    /\ request = NoRequest
    /\ cutoffDate = 0
    /\ data = createEmptyAggregatedData
    /\ pi = 0
    /\ fi = 0
    /\ response = NoResponse
SpecUsageMix == InitUsageMix /\ [][Next]_vars


\* ------------------------------------------------- hour and weekday lists
\* C21: every report lists the 24 hours 0..23 and the 7 weekdays 0..6, each
\* once and in ascending order, also over an archive without projects and
\* for a project directory without files.
C21_FullHourAndWeekdayLists ==
    StatsReplied =>
        /\ Len(Report.trends.byHour) = 24
        /\ \A n \in DOMAIN Report.trends.byHour : Report.trends.byHour[n].hour = n - 1
        /\ Len(Report.trends.byWeekday) = 7
        /\ \A n \in DOMAIN Report.trends.byWeekday : Report.trends.byWeekday[n].weekday = n - 1
C21_Witness ==
    /\ StatsReplied
    /\ request.kind = "project"
    /\ archive # << >>
    /\ archive[ProjectIndex(request.projectId)].files = << >>
    /\ Len(Report.trends.byHour) = 24
    /\ Len(Report.trends.byWeekday) = 7
    /\ \A n \in DOMAIN Report.trends.byHour : Report.trends.byHour[n].messageCount = 0


\* ------------------------------------------------ projects of one name
ProjectDirectories == { i \in DOMAIN archive : archive[i].isDirectory }
UsageOfProject(i) == { r \in UsageRecords : r[1] = i }
SessionsOfProject(i) == { f \in MainSessions : f[1] = i }
EntriesOf(projectId) ==
    { n \in DOMAIN Report.byProject : Report.byProject[n].id = projectId }

\* C22: the overall report holds one byProject entry per project directory,
\* found by the directory's raw id; the entry carries the tokens and the
\* sessions of that directory only, also when another directory has the
\* same display name.
C22_KeyedByRawProjectId ==
    (StatsReplied /\ request.kind = "overall") =>
        /\ Len(Report.byProject) = Cardinality(ProjectDirectories)
        /\ \A i \in ProjectDirectories :
              /\ Cardinality(EntriesOf(archive[i].id)) = 1
              /\ \A n \in EntriesOf(archive[i].id) :
                    /\ Report.byProject[n].name = getProjectName(archive[i].id)
                    /\ Report.byProject[n].tokenUsage.totalTokens
                         = SumSet(RecordTokens, UsageOfProject(i))
                    /\ Report.byProject[n].sessionCount
                         = Cardinality(SessionsOfProject(i))
C22_Witness ==
    /\ StatsReplied
    /\ request.kind = "overall"
    /\ \E n, m \in DOMAIN Report.byProject :
          /\ Report.byProject[n].id # Report.byProject[m].id
          /\ Report.byProject[n].name = Report.byProject[m].name
          /\ Report.byProject[n].tokenUsage.totalTokens > Report.byProject[m].tokenUsage.totalTokens
          /\ Report.byProject[m].tokenUsage.totalTokens > 0
          /\ Report.byProject[n].sessionCount = 1
          /\ Report.byProject[m].sessionCount = 1


\* ------------------------------------------- not found and nothing found
NamesDirectory(projectId) ==
    \E i \in DOMAIN archive : archive[i].id = projectId /\ archive[i].isDirectory
SessionFilesInScope == FilesWhere(LAMBDA file : IsSessionFile(file) /\ ~IsAgentFile(file))
\* Every session file of the directory can be read and every record of it
\* is dated before the cutoff
NothingInWindow ==
    /\ ~MalformedInScope
    /\ \A f \in SessionFilesInScope : \A k \in DOMAIN FileAt(f).messages :
          /\ FileAt(f).messages[k].timestamp # NaN
          /\ FileAt(f).messages[k].timestamp < cutoffDate
ZeroValued(report) ==
    /\ report.overview.messageCount = 0
    /\ report.overview.tokenUsage = createEmptyTokenUsage
    /\ report.cost.totalCost = 0
    /\ report.byModel = << >>
    /\ report.productivity.totalToolCalls = 0
    /\ \A n \in DOMAIN report.daily : report.daily[n].tokenUsage.totalTokens = 0
    /\ \A n \in DOMAIN report.trends.byHour : report.trends.byHour[n].messageCount = 0

\* C23: the per-project endpoint answers 404 exactly when the id names no
\* existing directory; for a directory without session files, or whose
\* records all lie before the cutoff, it answers 200 with a zero-valued
\* report.
C23_NotFoundOnlyForMissingDirectory ==
    (pc = "done" /\ request.kind = "project") =>
        /\ response.code = 404 <=> ~NamesDirectory(request.projectId)
        /\ (NamesDirectory(request.projectId)
              /\ (SessionFilesInScope = {} \/ NothingInWindow))
             => /\ response.code = 200
                /\ ZeroValued(Report)
                /\ SessionFilesInScope = {} => Report.overview.sessionCount = 0
C23_Witness ==
    /\ StatsReplied
    /\ request.kind = "project"
    /\ NumericWindow
    /\ NothingInWindow
    /\ \E f \in MainSessions : \E k \in DOMAIN FileAt(f).messages : HasUsage(FileAt(f).messages[k])
    /\ Report.overview.sessionCount = 1
    /\ ZeroValued(Report)


\* ------------------------------------------- tool facts over the session
\* The tool invocations with an id and a name in the assistant records of
\* the window, with or without a usage block
Invocations ==
    UNION { { << r, i >> : i \in { i \in DOMAIN RecordAt(r).content :
                                     /\ RecordAt(r).content[i].type = "tool_use"
                                     /\ RecordAt(r).content[i].id # ""
                                     /\ RecordAt(r).content[i].name # "" } }
            : r \in RecordsWhere(MainSessions,
                                 LAMBDA m : m.type = "assistant" /\ InWindow(m)) }
\* The non-error outcomes of the window whose id an invocation of the same
\* session declares, before or after the outcome's record
CreditedOutcomes ==
    UNION { { << r, i >> : i \in { i \in DOMAIN RecordAt(r).content :
                                     /\ RecordAt(r).content[i].type = "tool_result"
                                     /\ ~RecordAt(r).content[i].is_error
                                     /\ \E v \in Invocations :
                                           /\ v[1][1] = r[1] /\ v[1][2] = r[2]
                                           /\ RecordAt(v[1]).content[v[2]].id
                                                = RecordAt(r).content[i].tool_use_id } }
            : r \in RecordsWhere(MainSessions,
                                 LAMBDA m : m.type = "user" /\ InWindow(m)) }

\* C24: every in-window tool invocation of an assistant record is counted
\* once, with or without a usage block on its record, and every non-error
\* outcome of it is credited wherever its record sits in the file.
C24_ToolFactsOverWholeSession ==
    StatsReplied =>
        /\ Report.productivity.totalToolCalls = Cardinality(Invocations)
        /\ SumSeq([n \in DOMAIN Report.productivity.toolUsage |->
                     Report.productivity.toolUsage[n].successfulUses])
             = Cardinality(CreditedOutcomes)


\* ---------------------------------------------------- sums of the groupings
TokenFields ==
    { "inputTokens", "cacheCreationTokens", "cacheReadTokens", "outputTokens", "totalTokens" }
TokensOver(list, field) == SumSeq([n \in DOMAIN list |-> list[n].tokenUsage[field]])
MessagesOver(list) == SumSeq([n \in DOMAIN list |-> list[n].messageCount])
TotalIsSum(list) ==
    \A n \in DOMAIN list :
        list[n].tokenUsage.totalTokens
          = list[n].tokenUsage.inputTokens + list[n].tokenUsage.cacheCreationTokens
            + list[n].tokenUsage.cacheReadTokens + list[n].tokenUsage.outputTokens

\* C25: in an overall report every field of overview.tokenUsage is the sum
\* of that field over byProject, byModel, byHour and byWeekday, messageCount
\* is the sum over byModel, byHour and byWeekday, and every bucket's
\* totalTokens is the sum of its four token fields.
C25_GroupingsSumToOverview ==
    (StatsReplied /\ request.kind = "overall") =>
        /\ \A field \in TokenFields :
              /\ Report.overview.tokenUsage[field] = TokensOver(Report.byProject, field)
              /\ Report.overview.tokenUsage[field] = TokensOver(Report.byModel, field)
              /\ Report.overview.tokenUsage[field] = TokensOver(Report.trends.byHour, field)
              /\ Report.overview.tokenUsage[field] = TokensOver(Report.trends.byWeekday, field)
        /\ Report.overview.messageCount = MessagesOver(Report.byModel)
        /\ Report.overview.messageCount = MessagesOver(Report.trends.byHour)
        /\ Report.overview.messageCount = MessagesOver(Report.trends.byWeekday)
        /\ TotalIsSum(<< Report.overview >>)
        /\ TotalIsSum(Report.byProject)
        /\ TotalIsSum(Report.byModel)
        /\ TotalIsSum(Report.trends.byHour)
        /\ TotalIsSum(Report.trends.byWeekday)
        /\ TotalIsSum(Report.daily)
C25_Witness ==
    /\ StatsReplied
    /\ request.kind = "overall"
    /\ Report.overview.messageCount = 3
    /\ Len(Report.byModel) >= 2
    /\ \E n, m \in DOMAIN Report.byProject :
          /\ n # m
          /\ Report.byProject[n].tokenUsage.totalTokens > 0
          /\ Report.byProject[m].tokenUsage.totalTokens > 0
    /\ Report.overview.tokenUsage.totalTokens > Report.overview.tokenUsage.inputTokens
    /\ Report.overview.tokenUsage.cacheReadTokens > 0


\* ------------------------------------------- a project within the whole
\* The overall reply over the archive of the state for the window of the
\* request of the state
OverallReply ==
    ReplyOver([kind |-> "overall", days |-> request.days, projectId |-> << >>], archive)
EntriesOfRequested(report) ==
    { n \in DOMAIN report.byProject : report.byProject[n].id = request.projectId }

\* C26: the per-project report of a directory agrees with the overall
\* report over the same archive and window: its overview tokenUsage and
\* sessionCount are those of the directory's byProject entry there.
C26_ProjectAgreesWithOverall ==
    (StatsReplied /\ request.kind = "project" /\ OverallReply.code = 200) =>
        LET overall == OverallReply.report[1] IN
        /\ Cardinality(EntriesOfRequested(overall)) = 1
        /\ \A n \in EntriesOfRequested(overall) :
              /\ overall.byProject[n].tokenUsage = Report.overview.tokenUsage
              /\ overall.byProject[n].sessionCount = Report.overview.sessionCount
C26_Witness ==
    /\ StatsReplied
    /\ request.kind = "project"
    /\ OverallReply.code = 200
    /\ Report.overview.sessionCount = 1
    /\ Report.overview.tokenUsage.totalTokens > 0
    /\ OverallReply.report[1].overview.sessionCount > 1
    /\ OverallReply.report[1].overview.tokenUsage.totalTokens
         > Report.overview.tokenUsage.totalTokens


\* --------------------------------------- one session id in two projects
\* The session files (project, file) with a usage record among the given ones
FilesOfRecords(records) == { << r[1], r[2] >> : r \in records }

\* C27: in the overall report a daily, hourly or weekday bucket counts the
\* session files that contribute in-window usage to it, so two files of one
\* name in different project directories count as two sessions.
C27_SameIdInTwoProjectsCountsTwice ==
    (StatsReplied /\ request.kind = "overall") =>
        /\ \A n \in DOMAIN Report.daily :
              Report.daily[n].sessionCount =
                 Cardinality(FilesOfRecords({ r \in UsageRecords :
                     RecordAt(r).timestamp \div HoursPerDay = Report.daily[n].date }))
        /\ \A n \in DOMAIN Report.trends.byHour :
              Report.trends.byHour[n].sessionCount =
                 Cardinality(FilesOfRecords({ r \in UsageRecords :
                     RecordAt(r).timestamp % HoursPerDay = Report.trends.byHour[n].hour }))
        /\ \A n \in DOMAIN Report.trends.byWeekday :
              Report.trends.byWeekday[n].sessionCount =
                 Cardinality(FilesOfRecords({ r \in UsageRecords :
                     getDay(RecordAt(r).timestamp) = Report.trends.byWeekday[n].weekday }))


\* ------------------------------------------- one parent per agent session
\* The title the listing shows for agent session a of group g
ShownTitle(g, a) == MapGet(response.projects[g].agents, a).title
RecordedBy(g, session) == collectAgentDescriptions(FileOfSession(g, session).messages)

\* C28: in the listing of a project an agent session is in the
\* agentSessions list of at most one main session, and it is shown with the
\* Task description that this parent recorded.
C28_OneParentAndItsTitle ==
    Listed =>
        \A g \in DOMAIN response.projects :
           \A n \in DOMAIN response.projects[g].sessions :
              LET session == response.projects[g].sessions[n] IN
              \A a \in Range(session.agentSessions) :
                 /\ ShownTitle(g, a) = MapGet(RecordedBy(g, session), a)
                 /\ \A m \in DOMAIN response.projects[g].sessions :
                       a \in Range(response.projects[g].sessions[m].agentSessions) => m = n


\* ------------------------------------------- the client's WebSocket effect
\* One instance of the effect of AppContent.  pc tells whether its cleanup
\* has run; data holds the variables of its closure (ws, closeAfterOpen,
\* reconnectTimeout, retryCount, shouldReconnect), the sockets it has
\* created and the timers it has set.  A socket is its readyState and its
\* close event (none, queued by the browser, handled by onclose).
\* const connect = () => { ws = new WebSocket(wsUrl); closeAfterOpen = false; ... }
connect(d) ==
    [d EXCEPT !.sockets = Append(@, [readyState |-> "CONNECTING", closeEvent |-> "none"]),
              !.ws = Len(d.sockets) + 1,
              !.closeAfterOpen = FALSE]

\* ws?.close(): starts the closing handshake of a socket that is not closed
close(d, socket) ==
    IF socket # 0 /\ d.sockets[socket].readyState \in { "CONNECTING", "OPEN" }
    THEN [d EXCEPT !.sockets[socket].readyState = "CLOSING"]
    ELSE d

\* Variant for comparison: a cleanup that leaves the reconnect timer running
clearTimeout_Forgotten(d) == d

\* if (reconnectTimeout) clearTimeout(reconnectTimeout)
clearTimeout(d) ==
    IF d.reconnectTimeout # 0 /\ d.timers[d.reconnectTimeout].state = "pending"
    THEN [d EXCEPT !.timers[d.reconnectTimeout].state = "cleared"]
    ELSE d

\* Math.min(1000 * 2 ** retryCount, 10000)
RECURSIVE TwoToThe(_)
TwoToThe(n) == IF n = 0 THEN 1 ELSE 2 * TwoToThe(n - 1)
delayMs(retryCount) ==
    IF 1000 * TwoToThe(retryCount) < 10000 THEN 1000 * TwoToThe(retryCount) ELSE 10000

InitSocket ==
    /\ archive = << >>
    /\ now = Now
    /\ request = NoRequest
    /\ cutoffDate = 0
    /\ pi = 0
    /\ fi = 0
    /\ response = NoResponse
    /\ pc = "mounted"
    /\ data = connect([sockets |-> << >>, timers |-> << >>, ws |-> 0,
                       closeAfterOpen |-> FALSE, reconnectTimeout |-> 0,
                       retryCount |-> 0, shouldReconnect |-> TRUE])

\* The connection of a socket is established: ws.onopen
OnOpen(socket) ==
    /\ data.sockets[socket].readyState = "CONNECTING"
    /\ LET opened == [data EXCEPT !.sockets[socket].readyState = "OPEN"] IN
       data' = IF opened.closeAfterOpen THEN close(opened, opened.ws)
               ELSE [opened EXCEPT !.retryCount = 0]
    /\ UNCHANGED << archive, now, pc, request, cutoffDate, pi, fi, response >>

\* The browser ends a connection: the attempt fails, an open connection is
\* lost, or the closing handshake is over; it queues the close event
ConnectionEnds(socket) ==
    /\ data.sockets[socket].readyState # "CLOSED"
    /\ data' = [data EXCEPT !.sockets[socket] =
                               [readyState |-> "CLOSED", closeEvent |-> "queued"]]
    /\ UNCHANGED << archive, now, pc, request, cutoffDate, pi, fi, response >>

\* ws.onclose
OnClose(socket) ==
    /\ data.sockets[socket].closeEvent = "queued"
    /\ LET handled == [data EXCEPT !.sockets[socket].closeEvent = "handled"] IN
       data' = IF ~handled.shouldReconnect THEN handled
               ELSE [handled EXCEPT
                       !.timers = Append(@, [state |-> "pending",
                                             delayMs |-> delayMs(handled.retryCount)]),
                       !.retryCount = @ + 1,
                       !.reconnectTimeout = Len(handled.timers) + 1]
    /\ UNCHANGED << archive, now, pc, request, cutoffDate, pi, fi, response >>

\* A timer set by onclose runs connect
TimerFires(timer) ==
    /\ data.timers[timer].state = "pending"
    /\ Len(data.sockets) < MaxSockets
    /\ data' = connect([data EXCEPT !.timers[timer].state = "fired"])
    /\ UNCHANGED << archive, now, pc, request, cutoffDate, pi, fi, response >>

\* The function the effect returns
Cleanup ==
    /\ pc = "mounted"
    /\ pc' = "cleaned"
    /\ LET stopped == clearTimeout([data EXCEPT !.shouldReconnect = FALSE]) IN
       data' = IF stopped.ws # 0 /\ stopped.sockets[stopped.ws].readyState = "CONNECTING"
               THEN [stopped EXCEPT !.closeAfterOpen = TRUE]
               ELSE close(stopped, stopped.ws)
    /\ UNCHANGED << archive, now, request, cutoffDate, pi, fi, response >>

NextSocket ==
    \/ \E socket \in DOMAIN data.sockets : OnOpen(socket)
    \/ \E socket \in DOMAIN data.sockets : ConnectionEnds(socket)
    \/ \E socket \in DOMAIN data.sockets : OnClose(socket)
    \/ \E timer \in DOMAIN data.timers : TimerFires(timer)
    \/ Cleanup
\* A connection attempt and a closing handshake come to an end, and a queued
\* close event is dispatched
SocketSettles ==
    \E socket \in DOMAIN data.sockets :
       \/ OnOpen(socket)
       \/ data.sockets[socket].readyState = "CLOSING" /\ ConnectionEnds(socket)
       \/ OnClose(socket)
SpecSocket == InitSocket /\ [][NextSocket]_vars /\ WF_vars(SocketSettles)

AllSocketsClosed ==
    \A socket \in DOMAIN data.sockets :
       data.sockets[socket].readyState = "CLOSED" /\ data.sockets[socket].closeEvent = "handled"
Handled(d) == { socket \in DOMAIN d.sockets : d.sockets[socket].closeEvent = "handled" }
Pending(d) == { timer \in DOMAIN d.timers : d.timers[timer].state = "pending" }

\* C29: after the cleanup the effect opens no further connection and every
\* socket it created ends up closed, whatever state the cleanup found; before
\* the cleanup every close event sets exactly one reconnect timer.
C29_CleanupIsFinal ==
    /\ [][pc = "cleaned" => Len(data'.sockets) = Len(data.sockets)]_vars
    /\ [](pc = "cleaned" => <>[]AllSocketsClosed)
    /\ [][(pc' = "mounted" /\ Handled(data') # Handled(data))
            => /\ Len(data'.timers) = Len(data.timers) + 1
               /\ Cardinality(Pending(data')) = Cardinality(Pending(data)) + 1
               /\ Cardinality(Pending(data')) = 1]_vars
C29_Witness ==
    /\ pc = "cleaned"
    /\ Len(data.sockets) = 2
    /\ AllSocketsClosed
    /\ \E timer \in DOMAIN data.timers : data.timers[timer].state = "cleared"


\* ------------------------------------------------------------ getProjectPath
\* Here a string is the sequence of its characters.  A file system is a
\* function from the path of each of its directories to the names of that
\* directory's sub-directories in the order readdirSync lists them, or to
\* Unreadable when readdirSync throws.  archive holds the file system,
\* request the project id, data the stack and response the returned path.
DirectoryNames == { << "a" >>, << "b" >>, << "a", "." >> }
IdCharacters == { "a", "b", "-" }
Unreadable == << << "EACCES" >> >>
RootPath == << "/" >>

\* path.replace(/[ .@#$%^&*()+=\[\]{}|\\:;"'<>?,\/]/g, '-')
encodeProjectPath(path) ==
    [i \in DOMAIN path |-> IF path[i] \in { ".", "/" } THEN "-" ELSE path[i]]

\* join(current.path, dirName)
join(path, dirName) ==
    IF path = RootPath THEN path \o dirName ELSE path \o << "/" >> \o dirName

\* if (s.startsWith('-')) s = s.slice(1)
WithoutDash(s) == IF startsWith(s, << "-" >>) THEN Tail(s) ELSE s

Listings(n) ==
    { listing \in SeqsUpTo(DirectoryNames, n) :
        \A i, j \in DOMAIN listing : i # j => listing[i] # listing[j] }
\* The file system whose root lists `top` and whose directory top[i] lists
\* below[i] (or is unreadable); the directories of the second level are empty
FileSystem(top, below) ==
    LET second == { << i, j >> \in (DOMAIN top) \X (1 .. MaxDirectories) :
                       below[i] # Unreadable /\ j \in DOMAIN below[i] }
        paths == { RootPath } \cup { join(RootPath, top[i]) : i \in DOMAIN top }
                    \cup { join(join(RootPath, top[ij[1]]), below[ij[1]][ij[2]]) : ij \in second }
    IN [path \in paths |->
          IF path = RootPath THEN top
          ELSE IF \E i \in DOMAIN top : path = join(RootPath, top[i])
               THEN below[CHOOSE i \in DOMAIN top : path = join(RootPath, top[i])]
               ELSE << >>]
Size(top, below) ==
    Len(top) + SumSeq([i \in DOMAIN top |-> IF below[i] = Unreadable THEN 0 ELSE Len(below[i])])
FileSystems ==
    { FileSystem(top, below) :
        << top, below >> \in
          { tb \in Listings(MaxDirectories) \X SeqsUpTo(Listings(MaxDirectories) \cup { Unreadable }, MaxDirectories) :
              Len(tb[2]) = Len(tb[1]) /\ Size(tb[1], tb[2]) <= MaxDirectories } }
ProjectIds == SeqsUpTo(IdCharacters, MaxIdLength)

InitPath ==
    /\ archive \in FileSystems
    /\ request \in ProjectIds
    /\ now = Now
    /\ cutoffDate = 0
    /\ pi = 0
    /\ fi = 0
    /\ pc = "start"
    /\ data = << >>
    /\ response = << >>

\* Lines 64-77: strip the leading dash, return the root for an empty rest
Start ==
    /\ pc = "start"
    /\ LET remaining == WithoutDash(request) IN
       IF remaining = << >>
       THEN pc' = "returned" /\ response' = RootPath /\ data' = data
       ELSE /\ pc' = "loop"
            /\ data' = << [path |-> RootPath, remaining |-> remaining, dirIndex |-> 0] >>
            /\ response' = response
    /\ UNCHANGED << archive, now, request, cutoffDate, pi, fi >>

\* Lines 82-85: the top of the stack has nothing left to match
Found ==
    /\ pc = "loop" /\ data # << >>
    /\ data[Len(data)].remaining = << >>
    /\ pc' = "returned"
    /\ response' = data[Len(data)].path
    /\ UNCHANGED << archive, now, request, cutoffDate, data, pi, fi >>

\* The indexes, from dirIndex on, of the directories whose encoded name
\* begins the remaining text
Matching(current) ==
    { i \in DOMAIN archive[current.path] :
        /\ i > current.dirIndex
        /\ startsWith(current.remaining, encodeProjectPath(archive[current.path][i])) }

\* Lines 93-113 with a match: descend into the first matching directory
Descend ==
    /\ pc = "loop" /\ data # << >>
    /\ LET current == data[Len(data)] IN
       /\ current.remaining # << >>
       /\ current.path \in DOMAIN archive /\ archive[current.path] # Unreadable
       /\ Matching(current) # {}
       /\ LET i == CHOOSE m \in Matching(current) : \A other \in Matching(current) : m <= other
              dirName == archive[current.path][i]
              encoded == encodeProjectPath(dirName)
              nextRemaining == WithoutDash(SubSeq(current.remaining, Len(encoded) + 1, Len(current.remaining)))
          IN data' = Append([data EXCEPT ![Len(data)].dirIndex = i],
                            [path |-> join(current.path, dirName),
                             remaining |-> nextRemaining, dirIndex |-> 0])
    /\ UNCHANGED << archive, now, pc, request, cutoffDate, pi, fi, response >>

\* Lines 115-118: no directory matches, backtrack
Backtrack ==
    /\ pc = "loop" /\ data # << >>
    /\ LET current == data[Len(data)] IN
       /\ current.remaining # << >>
       /\ current.path \in DOMAIN archive /\ archive[current.path] # Unreadable
       /\ Matching(current) = {}
    /\ data' = SubSeq(data, 1, Len(data) - 1)
    /\ UNCHANGED << archive, now, pc, request, cutoffDate, pi, fi, response >>

\* Lines 119-123: readdirSync throws, backtrack
CannotRead ==
    /\ pc = "loop" /\ data # << >>
    /\ LET current == data[Len(data)] IN
       /\ current.remaining # << >>
       /\ current.path \notin DOMAIN archive \/ archive[current.path] = Unreadable
    /\ data' = SubSeq(data, 1, Len(data) - 1)
    /\ UNCHANGED << archive, now, pc, request, cutoffDate, pi, fi, response >>

\* Lines 126-127: the stack is empty, the root is the fallback
Fallback ==
    /\ pc = "loop" /\ data = << >>
    /\ pc' = "returned"
    /\ response' = RootPath
    /\ UNCHANGED << archive, now, request, cutoffDate, data, pi, fi >>

NextPath == Start \/ Found \/ Descend \/ Backtrack \/ CannotRead \/ Fallback
SpecPath == InitPath /\ [][NextPath]_vars /\ WF_vars(NextPath)

\* C30: getProjectPath terminates, and a returned path other than the root
\* is an existing directory whose encoding is the project id.
C30_ReturnsADirectoryEncodingTheId ==
    /\ <>(pc = "returned")
    /\ [](pc = "returned" /\ response # RootPath
            => response \in DOMAIN archive /\ encodeProjectPath(response) = request)

=============================================================================
